---- MODULE Spec2Model ----
(***************************************************************************)
(* A model of the zapcore encoding subsystem: the tagged Field and its     *)
(* dispatch (Field.AddTo), the JSON encoder (jsonEncoder), the console     *)
(* encoder built on it, and the encoder/buffer pools they draw from.       *)
(*                                                                         *)
(* Buffers are sequences of byte values (0..255).  An encoder is handled   *)
(* in two forms: as a heap object (encs[id], whose buf and reflectBuf are  *)
(* buffer ids) and as a "view" record e = [cfg, buf, spaced,               *)
(* openNamespaces, hasReflectBuf, reflectBuf] whose buf is the content of  *)
(* the buffer the object points to.  The encoder's methods are operators   *)
(* on views; the actions load a view from the heap, apply the methods and  *)
(* store the result back.                                                  *)
(***************************************************************************)
EXTENDS Integers, Sequences, FiniteSets, TLC

(***************************************************************************)
(* Byte values the encoder tests for or writes.                            *)
(***************************************************************************)
LBrace == 123
RBrace == 125
LBracket == 91
RBracket == 93
Colon == 58
Comma == 44
Space == 32
Quote == 34
Backslash == 92
Tab == 9
Newline == 10
CarriageReturn == 13
RuneSelf == 128

\* const _hex = "0123456789abcdef"
_hex == <<48, 49, 50, 51, 52, 53, 54, 55, 56, 57, 97, 98, 99, 100, 101, 102>>

\* DefaultLineEnding = "\n"
DefaultLineEnding == <<Newline>>

(***************************************************************************)
(* Text used by the model's inputs, as bytes.                              *)
(***************************************************************************)
B_a == <<97>>
B_b == <<98>>
B_c == <<99>>
B_d == <<100>>
B_e == <<101>>
B_k == <<107>>
B_l == <<108>>
B_m == <<109>>
B_o == <<111>>
B_r == <<114>>
B_s == <<115>>
B_t == <<116>>
B_u == <<117>>
B_v == <<118>>
B_x == <<120>>
B_ns == <<110, 115>>
B_true == <<116, 114, 117, 101>>
B_false == <<102, 97, 108, 115, 101>>
B_Error == <<69, 114, 114, 111, 114>>
B_info == <<105, 110, 102, 111>>
B_boom == <<98, 111, 111, 109>>
B_null == <<110, 117, 108, 108>>
\* a value that needs escaping: q"\
B_quoted == <<113, Quote, Backslash>>
\* a value made of separator bytes: ,{
B_commas == <<Comma, LBrace>>
\* the six bytes \ u f f f d
B_ufffd == <<Backslash, 117, 102, 102, 102, 100>>
\* the four bytes \ u 0 0
B_u00 == <<Backslash, 117, 48, 48>>

(***************************************************************************)
(* strconv: decimal text of an integer (buffer.AppendInt / AppendUint).    *)
(***************************************************************************)
RECURSIVE Digits(_)
Digits(n) ==
    IF n < 10 THEN <<48 + n>> ELSE Digits(n \div 10) \o <<48 + (n % 10)>>

FormatInt(n) == IF n < 0 THEN <<45>> \o Digits(0 - n) ELSE Digits(n)

(***************************************************************************)
(* buffer.Buffer writes (AppendByte, AppendString, Write): append bytes.   *)
(***************************************************************************)
BufAppend(e, bs) == [e EXCEPT !.buf = @ \o bs]

(***************************************************************************)
(* unicode/utf8.DecodeRune at position i of s: the rune class and size.    *)
(* An invalid or truncated sequence decodes to (RuneError, 1); the valid   *)
(* encoding EF BF BD of U+FFFD decodes to (RuneError, 3).                  *)
(***************************************************************************)
InRange(s, i, lo, hi) == i <= Len(s) /\ s[i] >= lo /\ s[i] <= hi

DecodeRune(s, i) ==
    LET b == s[i]
        bad == [r |-> "RuneError", size |-> 1]
    IN  IF b >= 194 /\ b <= 223
        THEN IF InRange(s, i + 1, 128, 191)
             THEN [r |-> "rune", size |-> 2] ELSE bad
        ELSE IF b >= 224 /\ b <= 239
        THEN LET lo == IF b = 224 THEN 160 ELSE 128
                 hi == IF b = 237 THEN 159 ELSE 191
             IN  IF InRange(s, i + 1, lo, hi) /\ InRange(s, i + 2, 128, 191)
                 THEN [r |-> IF b = 239 /\ s[i + 1] = 191 /\ s[i + 2] = 189
                             THEN "RuneError" ELSE "rune",
                       size |-> 3]
                 ELSE bad
        ELSE IF b >= 240 /\ b <= 244
        THEN LET lo == IF b = 240 THEN 144 ELSE 128
                 hi == IF b = 244 THEN 143 ELSE 191
             IN  IF /\ InRange(s, i + 1, lo, hi)
                    /\ InRange(s, i + 2, 128, 191)
                    /\ InRange(s, i + 3, 128, 191)
                 THEN [r |-> "rune", size |-> 4] ELSE bad
        ELSE bad

DecodeRuneInString(s, i) == DecodeRune(s, i)

(***************************************************************************)
(* tryAddRuneSelf: [ok, out], out the bytes appended for byte b.           *)
(***************************************************************************)
tryAddRuneSelf_RawControl(b) ==
    IF b >= RuneSelf THEN [ok |-> FALSE, out |-> <<>>]
    ELSE IF b # Backslash /\ b # Quote /\ b # Newline /\ b # Tab
    THEN [ok |-> TRUE, out |-> <<b>>]
    ELSE IF b = Backslash \/ b = Quote
    THEN [ok |-> TRUE, out |-> <<Backslash, b>>]
    ELSE IF b = Newline THEN [ok |-> TRUE, out |-> <<Backslash, 110>>]
    ELSE [ok |-> TRUE, out |-> <<Backslash, 116>>]

tryAddRuneSelf(b) ==
    IF b >= RuneSelf THEN [ok |-> FALSE, out |-> <<>>]
    ELSE IF Space <= b /\ b # Backslash /\ b # Quote
    THEN [ok |-> TRUE, out |-> <<b>>]
    ELSE IF b = Backslash \/ b = Quote
    THEN [ok |-> TRUE, out |-> <<Backslash, b>>]
    ELSE IF b = Newline THEN [ok |-> TRUE, out |-> <<Backslash, 110>>]
    ELSE IF b = CarriageReturn THEN [ok |-> TRUE, out |-> <<Backslash, 114>>]
    ELSE IF b = Tab THEN [ok |-> TRUE, out |-> <<Backslash, 116>>]
    ELSE [ok |-> TRUE,
          out |-> B_u00 \o <<_hex[(b \div 16) + 1], _hex[(b % 16) + 1]>>]

(***************************************************************************)
(* tryAddRuneError: [ok, out].                                             *)
(***************************************************************************)
tryAddRuneError(r, size) ==
    IF r = "RuneError" /\ size = 1
    THEN [ok |-> TRUE, out |-> B_ufffd]
    ELSE [ok |-> FALSE, out |-> <<>>]

(***************************************************************************)
(* safeAddString / safeAddByteString: the loop over s from index i.  A     *)
(* step is [out, size]: the bytes appended and how far i advances.         *)
(***************************************************************************)
RuneStep(s, i, d, x) ==
    IF x.ok THEN [out |-> x.out, size |-> 1]
    ELSE [out |-> SubSeq(s, i, i + d.size - 1), size |-> d.size]

DecodedStep(s, i, d) == RuneStep(s, i, d, tryAddRuneError(d.r, d.size))

ByteStep(s, i, t, d) ==
    IF t.ok THEN [out |-> t.out, size |-> 1] ELSE DecodedStep(s, i, d)

RECURSIVE safeAddStringFrom(_, _)
safeAddStringNext(s, i, step) ==
    step.out \o safeAddStringFrom(s, i + step.size)

safeAddStringFrom(s, i) ==
    IF i > Len(s) THEN <<>>
    ELSE safeAddStringNext(s, i,
             ByteStep(s, i, tryAddRuneSelf(s[i]), DecodeRuneInString(s, i)))

safeAddString(e, s) == BufAppend(e, safeAddStringFrom(s, 1))

RECURSIVE safeAddByteStringFrom(_, _)
safeAddByteStringNext(s, i, step) ==
    step.out \o safeAddByteStringFrom(s, i + step.size)

safeAddByteStringFrom(s, i) ==
    IF i > Len(s) THEN <<>>
    ELSE safeAddByteStringNext(s, i,
             ByteStep(s, i, tryAddRuneSelf(s[i]), DecodeRune(s, i)))

safeAddByteString(e, s) == BufAppend(e, safeAddByteStringFrom(s, 1))

(***************************************************************************)
(* addElementSeparator: decided by the last byte of the buffer.            *)
(***************************************************************************)
addElementSeparator_NoCheck(e) ==
    IF Len(e.buf) < 1 THEN e
    ELSE IF e.spaced THEN BufAppend(e, <<Comma, Space>>)
    ELSE BufAppend(e, <<Comma>>)

addElementSeparator(e) ==
    IF Len(e.buf) - 1 < 0 THEN e
    ELSE IF e.buf[Len(e.buf)] \in {LBrace, LBracket, Colon, Comma, Space}
    THEN e
    ELSE IF e.spaced THEN BufAppend(e, <<Comma, Space>>)
    ELSE BufAppend(e, <<Comma>>)

(***************************************************************************)
(* addKey: separator, quoted escaped key, colon, optional space.           *)
(***************************************************************************)
addKey_AlwaysSpace(e, key) ==
    BufAppend(safeAddString(BufAppend(addElementSeparator(e), <<Quote>>), key),
              <<Quote, Colon, Space>>)

addKey(e, key) ==
    BufAppend(safeAddString(BufAppend(addElementSeparator(e), <<Quote>>), key),
              IF e.spaced THEN <<Quote, Colon, Space>> ELSE <<Quote, Colon>>)

(***************************************************************************)
(* Encoder configurations (EncoderConfig values).  An encoder refers to    *)
(* its configuration by index into Configs; 0 is the nil reference.  The   *)
(* formatter callbacks are named by kind: "noop" appends nothing, the      *)
(* others append one value ("nil" is an unset EncodeName).                 *)
(***************************************************************************)
Configs ==
    << [LevelKey |-> <<>>, TimeKey |-> <<>>, NameKey |-> <<>>,
        CallerKey |-> <<>>, MessageKey |-> <<>>, StacktraceKey |-> <<>>,
        LineEnding |-> <<>>,
        EncodeLevel |-> "lowercase", EncodeTime |-> "epochnanos",
        EncodeDuration |-> "nanos", EncodeName |-> "nil",
        EncodeCaller |-> "full"],
       [LevelKey |-> <<76>>, TimeKey |-> <<84>>, NameKey |-> <<78>>,
        CallerKey |-> <<67>>, MessageKey |-> <<77>>, StacktraceKey |-> <<83>>,
        LineEnding |-> <<>>,
        EncodeLevel |-> "lowercase", EncodeTime |-> "epochnanos",
        EncodeDuration |-> "nanos", EncodeName |-> "nil",
        EncodeCaller |-> "full"],
       [LevelKey |-> <<76>>, TimeKey |-> <<84>>, NameKey |-> <<78>>,
        CallerKey |-> <<67>>, MessageKey |-> <<77>>, StacktraceKey |-> <<83>>,
        LineEnding |-> <<CarriageReturn, Newline>>,
        EncodeLevel |-> "noop", EncodeTime |-> "noop",
        EncodeDuration |-> "noop", EncodeName |-> "noop",
        EncodeCaller |-> "noop"] >>

CfgIds == 1 .. Len(Configs)

CfgOf(e) == Configs[e.cfg]

(***************************************************************************)
(* Positional appends.                                                     *)
(***************************************************************************)
AppendBool(e, val) ==
    BufAppend(addElementSeparator(e), IF val THEN B_true ELSE B_false)

AppendInt64(e, val) == BufAppend(addElementSeparator(e), FormatInt(val))

AppendUint64(e, val) == BufAppend(addElementSeparator(e), FormatInt(val))

AppendString(e, val) ==
    BufAppend(safeAddString(BufAppend(addElementSeparator(e), <<Quote>>), val),
              <<Quote>>)

AppendByteString(e, val) ==
    BufAppend(safeAddByteString(BufAppend(addElementSeparator(e), <<Quote>>),
                                val),
              <<Quote>>)

(***************************************************************************)
(* The pluggable formatters, applied to a JSON encoder: each either        *)
(* appends nothing or appends one value through the encoder's appends.     *)
(***************************************************************************)
EncodeLevel(e, level) ==
    IF CfgOf(e).EncodeLevel = "noop" THEN e ELSE AppendString(e, level)

EncodeTime(e, t) ==
    IF CfgOf(e).EncodeTime = "noop" THEN e ELSE AppendInt64(e, t.nanos)

EncodeDuration(e, d) ==
    IF CfgOf(e).EncodeDuration = "noop" THEN e ELSE AppendInt64(e, d)

EncodeName(e, name) ==
    IF CfgOf(e).EncodeName = "noop" THEN e ELSE AppendString(e, name)

EncodeCaller(e, caller) ==
    IF CfgOf(e).EncodeCaller = "noop" THEN e ELSE AppendString(e, caller)

\* "if cur == enc.buf.Len()": the formatter was a no-op, append the default
OrInt64(cur, e, val) == IF cur = Len(e.buf) THEN AppendInt64(e, val) ELSE e

OrString_Always(cur, e, val) == AppendString(e, val)

OrString(cur, e, val) == IF cur = Len(e.buf) THEN AppendString(e, val) ELSE e

AppendDuration(e, val) == OrInt64(Len(e.buf), EncodeDuration(e, val), val)

AppendTime(e, val) == OrInt64(Len(e.buf), EncodeTime(e, val), val.nanos)

(***************************************************************************)
(* Keyed adds.                                                             *)
(***************************************************************************)
AddBool(e, key, val) == AppendBool(addKey(e, key), val)

AddInt64(e, key, val) == AppendInt64(addKey(e, key), val)

AddUint64(e, key, val) == AppendUint64(addKey(e, key), val)

AddString(e, key, val) == AppendString(addKey(e, key), val)

AddByteString(e, key, val) == AppendByteString(addKey(e, key), val)

AddDuration(e, key, val) == AppendDuration(addKey(e, key), val)

AddTime(e, key, val) == AppendTime(addKey(e, key), val)

OpenNamespace(e, key) ==
    [BufAppend(addKey(e, key), <<LBrace>>) EXCEPT !.openNamespaces = @ + 1]

(***************************************************************************)
(* Marshaling callbacks.  A marshaler value is [ops, err]: the encoder     *)
(* calls it issues, in order, and the error it returns (<<>> is nil).      *)
(***************************************************************************)
ApplyOp(e, o) ==
    CASE o.op = "AppendString" -> AppendString(e, o.val)
      [] o.op = "AppendInt64" -> AppendInt64(e, o.int)
      [] o.op = "AppendBool" -> AppendBool(e, o.int = 1)
      [] o.op = "AddString" -> AddString(e, o.key, o.val)
      [] o.op = "AddInt64" -> AddInt64(e, o.key, o.int)
      [] o.op = "AddBool" -> AddBool(e, o.key, o.int = 1)
      [] o.op = "OpenNamespace" -> OpenNamespace(e, o.key)

RECURSIVE RunOps(_, _)
RunOps(e, ops) ==
    IF ops = <<>> THEN e ELSE RunOps(ApplyOp(e, Head(ops)), Tail(ops))

MarshalLogArray(arr, e) == [enc |-> RunOps(e, arr.ops), err |-> arr.err]

MarshalLogObject(obj, e) == [enc |-> RunOps(e, obj.ops), err |-> obj.err]

\* the closing byte after the callback, and the callback's error
AfterMarshal(r, close) == [enc |-> BufAppend(r.enc, close), err |-> r.err]

AfterMarshal_NoCloseOnError(r, close) ==
    IF r.err # <<>> THEN r ELSE AfterMarshal(r, close)

AppendArray_NoCloseOnError(e, arr) ==
    AfterMarshal_NoCloseOnError(
        MarshalLogArray(arr, BufAppend(addElementSeparator(e), <<LBracket>>)),
        <<RBracket>>)

AppendArray(e, arr) ==
    AfterMarshal(
        MarshalLogArray(arr, BufAppend(addElementSeparator(e), <<LBracket>>)),
        <<RBracket>>)

AppendObject(e, obj) ==
    AfterMarshal(
        MarshalLogObject(obj, BufAppend(addElementSeparator(e), <<LBrace>>)),
        <<RBrace>>)

AddArray(e, key, arr) == AppendArray(addKey(e, key), arr)

AddObject(e, key, obj) == AppendObject(addKey(e, key), obj)

(***************************************************************************)
(* Reflected values.  obj is [json, err]: what the generic encoder         *)
(* (encoding/json) makes of the value, the text it writes followed by a    *)
(* newline, or the error it returns having written nothing.                *)
(***************************************************************************)
resetReflectBuf(e) == [e EXCEPT !.hasReflectBuf = TRUE, !.reflectBuf = <<>>]

TrimNewline(b) ==
    IF Len(b) > 0 /\ b[Len(b)] = Newline THEN SubSeq(b, 1, Len(b) - 1) ELSE b

\* reflectEnc.Encode(obj) followed by reflectBuf.TrimNewline()
EncodeReflected(e, obj) ==
    [e EXCEPT !.reflectBuf = TrimNewline(@ \o obj.json \o <<Newline>>)]

\* enc.buf.Write(enc.reflectBuf.Bytes())
WriteReflectBuf(e) == [enc |-> BufAppend(e, e.reflectBuf), err |-> <<>>]
AddReflected_KeyFirst(e, key, obj) ==
    IF obj.err # <<>>
    THEN [enc |-> addKey(resetReflectBuf(e), key), err |-> obj.err]
    ELSE WriteReflectBuf(addKey(EncodeReflected(resetReflectBuf(e), obj), key))


AddReflected(e, key, obj) ==
    IF obj.err # <<>> THEN [enc |-> resetReflectBuf(e), err |-> obj.err]
    ELSE WriteReflectBuf(addKey(EncodeReflected(resetReflectBuf(e), obj), key))

AppendReflected(e, obj) ==
    IF obj.err # <<>> THEN [enc |-> resetReflectBuf(e), err |-> obj.err]
    ELSE WriteReflectBuf(
             addElementSeparator(EncodeReflected(resetReflectBuf(e), obj)))

(***************************************************************************)
(* closeOpenNamespaces and truncate.                                       *)
(***************************************************************************)
RECURSIVE Closers(_)
Closers(n) == IF n <= 0 THEN <<>> ELSE <<RBrace>> \o Closers(n - 1)

closeOpenNamespaces_None(e) == e

closeOpenNamespaces(e) == BufAppend(e, Closers(e.openNamespaces))

truncate(e) == [e EXCEPT !.buf = <<>>]

(***************************************************************************)
(* Fields.  A Field is [Key, Type, Integer, String, Interface].  The       *)
(* Interface is a record [dyn, ops, err, json, loc]: dyn names the dynamic *)
(* type of the value ("nil" for the nil interface) and the other parts are *)
(* what the field's type reads of it: a marshaler's calls and error, a     *)
(* reflected value's text and error, a Stringer's or error's or byte       *)
(* slice's text, a time's location.                                        *)
(***************************************************************************)
FieldTypes ==
    {"ArrayMarshalerType", "ObjectMarshalerType", "BinaryType", "BoolType",
     "ByteStringType", "Complex128Type", "Complex64Type", "DurationType",
     "Float64Type", "Float32Type", "Int64Type", "Int32Type", "Int16Type",
     "Int8Type", "StringType", "TimeType", "Uint64Type", "Uint32Type",
     "Uint16Type", "Uint8Type", "UintptrType", "ReflectType",
     "NamespaceType", "StringerType", "ErrorType", "SkipType"}

NoInterface ==
    [dyn |-> "nil", ops |-> <<>>, err |-> <<>>, json |-> <<>>, loc |-> ""]

\* intN(x), uintN(x) for the narrow widths (the model's integers are small)
WrapInt(m, bits) == IF m >= 2 ^ (bits - 1) THEN m - 2 ^ bits ELSE m

ToInt(x, bits) == WrapInt(x % (2 ^ bits), bits)

ToUint(x, bits) == x % (2 ^ bits)

Returned(e) == [enc |-> e, err |-> <<>>, panic |-> FALSE]

ReturnedErr(r) == [enc |-> r.enc, err |-> r.err, panic |-> FALSE]

Panicked(e) == [enc |-> e, err |-> <<>>, panic |-> TRUE]

\* f.Interface.(T): the type assertion holds when the dynamic type is T
Asserts(f, T) == f.Interface.dyn = T

\* encodeError for a plain error: the message under the key
encodeError(e, key, err) == AddString(e, key, err)

\* time.Unix(0, f.Integer), in the field's location when it has one
TimeOf(f) ==
    IF f.Interface.dyn # "nil"
    THEN [nanos |-> f.Integer, loc |-> f.Interface.loc]
    ELSE [nanos |-> f.Integer, loc |-> "Local"]

(***************************************************************************)
(* Field.AddTo: the switch on the type, then the "<key>Error" field.       *)
(* The arguments of an encoder call are evaluated before the call: a type  *)
(* assertion that fails panics with the encoder untouched.  The switch     *)
(* gives [enc, err, panic], AddTo [enc, panic].  The binary, float and     *)
(* complex tags are not modelled: no field of the model carries them.      *)
(***************************************************************************)
AddToSwitch(f, e) ==
    CASE f.Type = "ArrayMarshalerType" ->
            IF Asserts(f, "ArrayMarshaler")
            THEN ReturnedErr(AddArray(e, f.Key, f.Interface))
            ELSE Panicked(e)
      [] f.Type = "ObjectMarshalerType" ->
            IF Asserts(f, "ObjectMarshaler")
            THEN ReturnedErr(AddObject(e, f.Key, f.Interface))
            ELSE Panicked(e)
      [] f.Type = "BoolType" -> Returned(AddBool(e, f.Key, f.Integer = 1))
      [] f.Type = "ByteStringType" ->
            IF Asserts(f, "[]byte")
            THEN Returned(AddByteString(e, f.Key, f.Interface.json))
            ELSE Panicked(e)
      [] f.Type = "DurationType" -> Returned(AddDuration(e, f.Key, f.Integer))
      [] f.Type = "Int64Type" -> Returned(AddInt64(e, f.Key, f.Integer))
      [] f.Type = "Int32Type" ->
            Returned(AddInt64(e, f.Key, ToInt(f.Integer, 32)))
      [] f.Type = "Int16Type" ->
            Returned(AddInt64(e, f.Key, ToInt(f.Integer, 16)))
      [] f.Type = "Int8Type" ->
            Returned(AddInt64(e, f.Key, ToInt(f.Integer, 8)))
      [] f.Type = "StringType" -> Returned(AddString(e, f.Key, f.String))
      [] f.Type = "TimeType" ->
            IF Asserts(f, "nil") \/ Asserts(f, "*time.Location")
            THEN Returned(AddTime(e, f.Key, TimeOf(f)))
            ELSE Panicked(e)
      [] f.Type \in {"Uint64Type", "UintptrType"} ->
            Returned(AddUint64(e, f.Key, f.Integer))
      [] f.Type = "Uint32Type" ->
            Returned(AddUint64(e, f.Key, ToUint(f.Integer, 32)))
      [] f.Type = "Uint16Type" ->
            Returned(AddUint64(e, f.Key, ToUint(f.Integer, 16)))
      [] f.Type = "Uint8Type" ->
            Returned(AddUint64(e, f.Key, ToUint(f.Integer, 8)))
      [] f.Type = "ReflectType" ->
            ReturnedErr(AddReflected(e, f.Key, f.Interface))
      [] f.Type = "NamespaceType" -> Returned(OpenNamespace(e, f.Key))
      [] f.Type = "StringerType" ->
            IF Asserts(f, "fmt.Stringer")
            THEN Returned(AddString(e, f.Key, f.Interface.json))
            ELSE Panicked(e)
      [] f.Type = "ErrorType" ->
            IF Asserts(f, "error")
            THEN Returned(encodeError(e, f.Key, f.Interface.err))
            ELSE Panicked(e)
      [] f.Type = "SkipType" -> Returned(e)
      [] f.Type \notin FieldTypes -> Panicked(e)

\* "if err != nil { enc.AddString(key + "Error", err.Error()) }"
AddToError(f, r) ==
    IF r.panic THEN [enc |-> r.enc, panic |-> TRUE]
    ELSE IF r.err # <<>>
    THEN [enc |-> AddString(r.enc, f.Key \o B_Error, r.err), panic |-> FALSE]
    ELSE [enc |-> r.enc, panic |-> FALSE]

AddToError_Drop(f, r) == [enc |-> r.enc, panic |-> r.panic]

AddTo_DropError(f, e) == AddToError_Drop(f, AddToSwitch(f, e))

AddTo_SkipUnknown(f, e) ==
    IF f.Type \notin FieldTypes THEN [enc |-> e, panic |-> FALSE]
    ELSE AddToError(f, AddToSwitch(f, e))

AddTo(f, e) == AddToError(f, AddToSwitch(f, e))

(***************************************************************************)
(* addFields: AddTo for each field in order; a panic ends the loop.        *)
(***************************************************************************)
RECURSIVE addFields(_, _)
addFieldsRest(r, rest) == IF r.panic THEN r ELSE addFields(r.enc, rest)

addFields_LastFirst(e, fields) ==
    IF fields = <<>> THEN [enc |-> e, panic |-> FALSE]
    ELSE addFieldsRest(AddTo(fields[Len(fields)], e),
                       SubSeq(fields, 1, Len(fields) - 1))

addFields(e, fields) ==
    IF fields = <<>> THEN [enc |-> e, panic |-> FALSE]
    ELSE addFieldsRest(AddTo(Head(fields), e), Tail(fields))

(***************************************************************************)
(* jsonEncoder.EncodeEntry on the working clone final, in three parts:     *)
(* the head (the opening brace, the metadata, the message and the base     *)
(* encoder's accumulated bytes encBuf), addFields, and the tail (namespace *)
(* closers, stack, closing brace, line ending).                            *)
(***************************************************************************)
\* the key has been added: the formatter, or the default string
LevelValue(k, ent) == OrString(Len(k.buf), EncodeLevel(k, ent.Level), ent.Level)

NameValue(k, ent) ==
    OrString(Len(k.buf), EncodeName(k, ent.LoggerName), ent.LoggerName)

CallerValue(k, ent) ==
    OrString(Len(k.buf), EncodeCaller(k, ent.Caller.String), ent.Caller.String)

EntryLevel(final, ent) ==
    IF CfgOf(final).LevelKey # <<>>
    THEN LevelValue(addKey(final, CfgOf(final).LevelKey), ent)
    ELSE final

EntryTime(final, ent) ==
    IF CfgOf(final).TimeKey # <<>>
    THEN AddTime(final, CfgOf(final).TimeKey, ent.Time)
    ELSE final

EntryName(final, ent) ==
    IF ent.LoggerName # <<>> /\ CfgOf(final).NameKey # <<>>
    THEN NameValue(addKey(final, CfgOf(final).NameKey), ent)
    ELSE final

EntryCaller(final, ent) ==
    IF ent.Caller.Defined /\ CfgOf(final).CallerKey # <<>>
    THEN CallerValue(addKey(final, CfgOf(final).CallerKey), ent)
    ELSE final

EntryMessage(final, ent) ==
    IF CfgOf(final).MessageKey # <<>>
    THEN AppendString(addKey(final, CfgOf(final).MessageKey), ent.Message)
    ELSE final

\* "if enc.buf.Len() > 0": the base encoder's accumulated bytes
EntryContext(final, encBuf) ==
    IF Len(encBuf) > 0 THEN BufAppend(addElementSeparator(final), encBuf)
    ELSE final

EncodeEntryHead(final, encBuf, ent) ==
    EntryContext(
        EntryMessage(
            EntryCaller(
                EntryName(
                    EntryTime(
                        EntryLevel(BufAppend(final, <<LBrace>>), ent),
                        ent),
                    ent),
                ent),
            ent),
        encBuf)

EntryStack_Raw(final, ent) ==
    IF ent.Stack # <<>> /\ CfgOf(final).StacktraceKey # <<>>
    THEN BufAppend(final, <<Newline>> \o ent.Stack)
    ELSE final

EntryStack(final, ent) ==
    IF ent.Stack # <<>> /\ CfgOf(final).StacktraceKey # <<>>
    THEN AddString(final, CfgOf(final).StacktraceKey, ent.Stack)
    ELSE final

EntryLineEnding(final) ==
    IF CfgOf(final).LineEnding # <<>>
    THEN BufAppend(final, CfgOf(final).LineEnding)
    ELSE BufAppend(final, DefaultLineEnding)

EncodeEntryTail_StackFirst(final, ent) ==
    EntryLineEnding(
        BufAppend(closeOpenNamespaces(EntryStack(final, ent)), <<RBrace>>))

EncodeEntryTail(final, ent) ==
    EntryLineEnding(
        BufAppend(EntryStack(closeOpenNamespaces(final), ent), <<RBrace>>))

(***************************************************************************)
(* consoleEncoder.EncodeEntry.  The metadata goes through a slice encoder  *)
(* whose elements are printed with fmt.Fprint: the cells, each the text of *)
(* one element.  The line is built as bytes; context is the clone of the   *)
(* console's JSON encoder that writeContext works on.                      *)
(***************************************************************************)
ConsoleCells(c, ent) ==
    (IF c.TimeKey # <<>> /\ c.EncodeTime # "noop"
     THEN <<FormatInt(ent.Time.nanos)>> ELSE <<>>)
    \o (IF c.LevelKey # <<>> /\ c.EncodeLevel # "noop"
        THEN <<ent.Level>> ELSE <<>>)
    \o (IF ent.LoggerName # <<>> /\ c.NameKey # <<>> /\ c.EncodeName # "noop"
        THEN <<ent.LoggerName>> ELSE <<>>)
    \o (IF ent.Caller.Defined /\ c.CallerKey # <<>> /\ c.EncodeCaller # "noop"
        THEN <<ent.Caller.String>> ELSE <<>>)

RECURSIVE JoinCells(_, _, _)
JoinCells(line, elems, i) ==
    IF i > Len(elems) THEN line
    ELSE JoinCells((IF i > 1 THEN line \o <<Tab>> ELSE line) \o elems[i],
                   elems, i + 1)

addTabIfNecessary_Always(line) == line \o <<Tab>>

addTabIfNecessary(line) == IF Len(line) > 0 THEN line \o <<Tab>> ELSE line

ConsoleMessage(c, line, ent) ==
    IF c.MessageKey # <<>> THEN addTabIfNecessary(line) \o ent.Message
    ELSE line

\* writeContext after addFields: [line, context, panic]
writeContextBytes(line, ctx, panic) ==
    IF panic THEN [line |-> line, context |-> ctx, panic |-> TRUE]
    ELSE IF Len(ctx.buf) = 0
    THEN [line |-> line, context |-> ctx, panic |-> FALSE]
    ELSE [line |-> addTabIfNecessary(line) \o <<LBrace>> \o ctx.buf
                       \o <<RBrace>>,
          context |-> ctx, panic |-> FALSE]

writeContextAdded(line, r) ==
    writeContextBytes(line,
                      IF r.panic THEN r.enc ELSE closeOpenNamespaces(r.enc),
                      r.panic)

writeContext(line, context, extra) ==
    writeContextAdded(line, addFields(context, extra))

ConsoleStack(c, line, ent) ==
    IF ent.Stack # <<>> /\ c.StacktraceKey # <<>>
    THEN line \o <<Newline>> \o ent.Stack ELSE line

ConsoleLineEnding(c, line) ==
    IF c.LineEnding # <<>> THEN line \o c.LineEnding
    ELSE line \o DefaultLineEnding

ConsoleFinish(c, w, ent) ==
    IF w.panic THEN w
    ELSE [w EXCEPT !.line = ConsoleLineEnding(c, ConsoleStack(c, @, ent))]

\* [line, context, panic]
ConsoleEncodeEntry(context, ent, fields) ==
    ConsoleFinish(
        CfgOf(context),
        writeContext(
            ConsoleMessage(CfgOf(context),
                           JoinCells(<<>>, ConsoleCells(CfgOf(context), ent), 1),
                           ent),
            context, fields),
        ent)

(***************************************************************************)
(* Bounds of the model.                                                    *)
(***************************************************************************)
\* encoder objects and buffers that can be live at once
MaxEncs == 3
MaxBufs == 5
\* fields of one EncodeEntry call, and fields accumulated on the base
MaxFields == 3
MaxCtx == 1
\* concurrent EncodeEntry calls, and fields of each, under SpecConc
MaxCalls == 2
MaxConcFields == 1
\* direct calls on one encoder under SpecOps
MaxOps == 3
\* sink objects and slices that can be live at once, members of a fan-out
MaxSinks == 4
MaxArrs == 3
MaxMembers == 3
\* concurrent callers of a locked sink, and Lock calls, under SpecLock
MaxProcs == 2
MaxLockOps == 3
\* calls on the fan-out constructor and the fan-outs under SpecFan
MaxFanOps == 2

\* the strings escaped under SpecEscape: their length, and the calls made
MaxEscLen == 3
MaxEscOps == 1

(***************************************************************************)
(* The inputs: fields and entries.                                         *)
(***************************************************************************)
MkField(key, type, int, str, iface) ==
    [Key |-> key, Type |-> type, Integer |-> int, String |-> str,
     Interface |-> iface]

MkOp(op, key, val, int) == [op |-> op, key |-> key, val |-> val, int |-> int]

\* a marshaler issuing the calls ops and returning err
Marshaler(dyn, ops, err) ==
    [NoInterface EXCEPT !.dyn = dyn, !.ops = ops, !.err = err]

\* an object marshaler that adds "k":"v", and one that then fails with "boom"
ObjOk == Marshaler("ObjectMarshaler", <<MkOp("AddString", B_k, B_v, 0)>>, <<>>)
ObjErr ==
    Marshaler("ObjectMarshaler", <<MkOp("AddString", B_k, B_v, 0)>>, B_boom)
\* an object marshaler that opens a namespace and succeeds
ObjNs ==
    Marshaler("ObjectMarshaler", <<MkOp("OpenNamespace", B_ns, <<>>, 0)>>, <<>>)
\* an array marshaler that appends "x", true, and one that appends 10 and
\* fails with "boom"
ArrOk ==
    Marshaler("ArrayMarshaler",
              <<MkOp("AppendString", <<>>, B_x, 0),
                MkOp("AppendBool", <<>>, <<>>, 1)>>, <<>>)
ArrErr ==
    Marshaler("ArrayMarshaler", <<MkOp("AppendInt64", <<>>, <<>>, 10)>>, B_boom)

F_a == MkField(B_a, "StringType", 0, B_x, NoInterface)
F_b == MkField(B_b, "Int64Type", 10, <<>>, NoInterface)
F_c == MkField(B_c, "BoolType", 1, <<>>, NoInterface)
F_k == MkField(B_k, "StringType", 0, B_v, NoInterface)
F_q == MkField(B_k, "StringType", 0, B_commas, NoInterface)
F_ns == MkField(B_ns, "NamespaceType", 0, <<>>, NoInterface)
F_skip == MkField(B_s, "SkipType", 0, <<>>, NoInterface)
\* a second field with the key of F_a, and a duration of 5ns
F_aInt == MkField(B_a, "Int64Type", 20, <<>>, NoInterface)
F_dur == MkField(B_d, "DurationType", 5, <<>>, NoInterface)
F_unknown == MkField(B_u, "UnknownType", 0, <<>>, NoInterface)
F_outOfRange == MkField(B_u, "FieldType(28)", 0, <<>>, NoInterface)
F_obj == MkField(B_o, "ObjectMarshalerType", 0, <<>>, ObjOk)
F_objErr == MkField(B_o, "ObjectMarshalerType", 0, <<>>, ObjErr)
F_objNs == MkField(B_o, "ObjectMarshalerType", 0, <<>>, ObjNs)
\* an object-marshaler field whose Interface is nil
F_objNil == MkField(B_o, "ObjectMarshalerType", 0, <<>>, NoInterface)
F_arr == MkField(B_r, "ArrayMarshalerType", 0, <<>>, ArrOk)
F_arrErr == MkField(B_r, "ArrayMarshalerType", 0, <<>>, ArrErr)
\* a reflected value encoded as null, and one the generic encoder rejects
F_refl ==
    MkField(B_e, "ReflectType", 0, <<>>,
            [NoInterface EXCEPT !.dyn = "any", !.json = B_null])
F_reflErr ==
    MkField(B_e, "ReflectType", 0, <<>>,
            [NoInterface EXCEPT !.dyn = "any", !.err = B_boom])

\* a time in the location the field carries, and one that carries none
F_timeLoc ==
    MkField(B_t, "TimeType", 7, <<>>,
            [NoInterface EXCEPT !.dyn = "*time.Location", !.loc = "EST"])
F_timeNil == MkField(B_t, "TimeType", 7, <<>>, NoInterface)

E_min ==
    [Level |-> B_info, Time |-> [nanos |-> 7, loc |-> "UTC"],
     LoggerName |-> <<>>, Caller |-> [Defined |-> FALSE, String |-> <<>>],
     Message |-> <<>>, Stack |-> <<>>]

E_full ==
    [Level |-> B_info, Time |-> [nanos |-> 7, loc |-> "UTC"],
     LoggerName |-> B_l, Caller |-> [Defined |-> TRUE, String |-> B_c],
     Message |-> B_m, Stack |-> B_t]

Entries == {E_min, E_full}

\* all sequences over S of length at most n
RECURSIVE SeqsUpTo(_, _)
SeqsUpTo(S, n) ==
    IF n = 0 THEN {<<>>}
    ELSE SeqsUpTo(S, n - 1)
             \cup {Append(l, x) : l \in SeqsUpTo(S, n - 1), x \in S}

EntryFields ==
    {F_a, F_b, F_c, F_ns, F_objErr, F_arrErr, F_unknown, F_aInt, F_dur,
     F_skip}

CtxFields == {F_k, F_ns}

ConcFields == {F_a, F_ns, F_refl, F_outOfRange}

EntryFieldLists == SeqsUpTo(EntryFields, MaxFields)

ConcFieldLists == SeqsUpTo(ConcFields, MaxConcFields)

\* the direct calls of SpecOps
MethodOps ==
    {MkOp("AddString", B_a, B_x, 0), MkOp("AddInt64", B_b, <<>>, 10),
     MkOp("AppendString", <<>>, B_x, 0), MkOp("AppendInt64", <<>>, <<>>, 10),
     MkOp("AppendBool", <<>>, <<>>, 1), MkOp("OpenNamespace", B_ns, <<>>, 0)}

OpArrays == {ArrOk, ArrErr}

OpObjects == {ObjOk, ObjErr, ObjNs}

OpFields ==
    {F_c, F_skip, F_unknown, F_outOfRange, F_objNil, F_objErr, F_objNs,
     F_refl, F_reflErr, F_timeLoc, F_timeNil}

\* the values handed to AddReflected and AppendReflected
OpReflected == {F_refl.Interface, F_reflErr.Interface}

(***************************************************************************)
(* State.                                                                  *)
(*   encs, bufs   the heap: jsonEncoder objects and buffers, by id         *)
(*   jsonPool     _jsonPool: ids of the encoders resting in the pool       *)
(*   bufPool      the buffer pool: ids of the buffers resting in it        *)
(*   poolMayMiss  whether a pool's Get may pass over the pooled objects    *)
(*                and make a new one (it may when other goroutines or the  *)
(*                collector have touched the pool; a lone goroutine gets   *)
(*                back the object it has just put)                         *)
(*   base         the encoder the EncodeEntry calls are made on            *)
(*   kind         "json" (NewJSONEncoder) or "console" (NewConsoleEncoder) *)
(*   nctx         fields added to the base encoder so far                  *)
(*   calls        the EncodeEntry calls: position and locals of each       *)
(*   hist         the direct calls made on the base encoder, in order,     *)
(*                each with the encoder's bytes and depth before and after *)
(*   sinks        the WriteSyncer objects, by id: raw sinks, the           *)
(*                lockedWriteSyncers (with the state of their mutex) and   *)
(*                the multiWriteSyncers (with the array they range over)   *)
(*   arrays       the backing arrays of the []WriteSyncer slices, by id    *)
(*   procs        the goroutines calling Write and Sync on locked sinks:   *)
(*                position and locals of each                              *)
(*   sinkHist     the calls of Lock and NewMultiWriteSyncer and the Write  *)
(*                and Sync calls on the fan-outs, in order                 *)
(***************************************************************************)
VARIABLES encs, bufs, jsonPool, bufPool, poolMayMiss, base, kind, nctx, calls,
          hist, sinks, arrays, procs, sinkHist

encVars ==
    <<encs, bufs, jsonPool, bufPool, poolMayMiss, base, kind, nctx, calls,
      hist>>

sinkVars == <<sinks, arrays, procs, sinkHist>>

vars == <<encVars, sinkVars>>

EncIds == 1 .. MaxEncs
BufIds == 1 .. MaxBufs

\* &jsonEncoder{}: the zero value
ZeroEnc ==
    [live |-> FALSE, cfg |-> 0, buf |-> 0, spaced |-> FALSE,
     openNamespaces |-> 0, reflectBuf |-> 0]

NoBuf == [live |-> FALSE, bytes |-> <<>>]

MinOf(S) == CHOOSE i \in S : \A j \in S : i <= j

Heap ==
    [encs |-> encs, bufs |-> bufs, jsonPool |-> jsonPool, bufPool |-> bufPool,
     miss |-> poolMayMiss]

\* what Get may return: the pooled objects, or the new one
PoolChoices(pool, new, miss) ==
    IF pool = {} THEN new
    ELSE IF miss THEN pool \cup new
    ELSE {MinOf(pool)}

\* the slot a new object takes
NewSlot(free) == IF free = {} THEN {} ELSE {MinOf(free)}

(***************************************************************************)
(* The buffer pool: Get hands out a pooled buffer or a new one, empty;     *)
(* Free puts a buffer back.  (A pooled buffer's bytes are cleared when it  *)
(* is handed out; the model clears them when it is put back, which no      *)
(* holder of the pool's contract can tell apart.)                          *)
(***************************************************************************)
BufGetChoices(h) ==
    PoolChoices(h.bufPool, NewSlot({i \in BufIds : ~h.bufs[i].live}), h.miss)

BufGet(h, id) ==
    [h EXCEPT !.bufPool = @ \ {id},
              !.bufs[id] = [live |-> TRUE, bytes |-> <<>>]]

BufFree(h, id) ==
    [h EXCEPT !.bufPool = @ \cup {id}, !.bufs[id].bytes = <<>>]

(***************************************************************************)
(* _jsonPool: getJSONEncoder hands out a pooled encoder as it was put, or  *)
(* a new zero encoder; putJSONEncoder resets the encoder and pools it.     *)
(***************************************************************************)
EncGetChoices(h) ==
    PoolChoices(h.jsonPool, NewSlot({i \in EncIds : ~h.encs[i].live}), h.miss)

getJSONEncoder(h, id) ==
    IF id \in h.jsonPool THEN [h EXCEPT !.jsonPool = @ \ {id}]
    ELSE [h EXCEPT !.encs[id] = [ZeroEnc EXCEPT !.live = TRUE]]

\* "if enc.reflectBuf != nil { enc.reflectBuf.Free() }"
FreeReflectBuf(h, id) ==
    IF h.encs[id].reflectBuf # 0 THEN BufFree(h, h.encs[id].reflectBuf) ELSE h

putJSONEncoder_KeepDepth(h, id) ==
    [FreeReflectBuf(h, id) EXCEPT !.encs[id].cfg = 0,
                                  !.encs[id].buf = 0,
                                  !.encs[id].spaced = FALSE,
                                  !.encs[id].reflectBuf = 0,
                                  !.jsonPool = @ \cup {id}]

putJSONEncoder(h, id) ==
    [FreeReflectBuf(h, id) EXCEPT !.encs[id].cfg = 0,
                                  !.encs[id].buf = 0,
                                  !.encs[id].spaced = FALSE,
                                  !.encs[id].openNamespaces = 0,
                                  !.encs[id].reflectBuf = 0,
                                  !.jsonPool = @ \cup {id}]

(***************************************************************************)
(* clone: a pooled or new encoder id with the configuration, spacing and   *)
(* depth of src and the buffer bid, newly got.  Clone copies src's bytes.  *)
(***************************************************************************)
clone_ShareBuf(h, src, id, bid) ==
    [getJSONEncoder(h, id) EXCEPT
        !.encs[id].cfg = h.encs[src].cfg,
        !.encs[id].spaced = h.encs[src].spaced,
        !.encs[id].openNamespaces = h.encs[src].openNamespaces,
        !.encs[id].buf = h.encs[src].buf]

clone_KeepPooledDepth(h, src, id, bid) ==
    [BufGet(getJSONEncoder(h, id), bid) EXCEPT
        !.encs[id].cfg = h.encs[src].cfg,
        !.encs[id].spaced = h.encs[src].spaced,
        !.encs[id].buf = bid]

clone(h, src, id, bid) ==
    [BufGet(getJSONEncoder(h, id), bid) EXCEPT
        !.encs[id].cfg = h.encs[src].cfg,
        !.encs[id].spaced = h.encs[src].spaced,
        !.encs[id].openNamespaces = h.encs[src].openNamespaces,
        !.encs[id].buf = bid]

\* clone.buf.Write(enc.buf.Bytes())
WriteBytes(h, id, bytes) == [h EXCEPT !.bufs[h.encs[id].buf].bytes = @ \o bytes]

Clone(h, src, id, bid) ==
    WriteBytes(clone(h, src, id, bid), id, h.bufs[h.encs[src].buf].bytes)

(***************************************************************************)
(* The view of a heap encoder, and writing a view back.  rid is the buffer *)
(* resetReflectBuf got when the encoder had none (0 when it got none).     *)
(***************************************************************************)
BytesOf(h, b) == IF b # 0 THEN h.bufs[b].bytes ELSE <<>>

Load(h, id) ==
    [cfg |-> h.encs[id].cfg,
     buf |-> BytesOf(h, h.encs[id].buf),
     spaced |-> h.encs[id].spaced,
     openNamespaces |-> h.encs[id].openNamespaces,
     hasReflectBuf |-> h.encs[id].reflectBuf # 0,
     reflectBuf |-> BytesOf(h, h.encs[id].reflectBuf)]

NeedsReflectBuf(h, id, v) == v.hasReflectBuf /\ h.encs[id].reflectBuf = 0

ReflectChoices(h, id, v) ==
    IF NeedsReflectBuf(h, id, v) THEN BufGetChoices(h) ELSE {0}

StoreReflectBuf(h, id, v, rid) ==
    IF NeedsReflectBuf(h, id, v)
    THEN [BufGet(h, rid) EXCEPT !.encs[id].reflectBuf = rid]
    ELSE h

StoreBytes(h, id, v) ==
    [h EXCEPT !.bufs = [b \in BufIds |->
                           IF b = h.encs[id].buf
                           THEN [h.bufs[b] EXCEPT !.bytes = v.buf]
                           ELSE IF b = h.encs[id].reflectBuf
                           THEN [h.bufs[b] EXCEPT !.bytes = v.reflectBuf]
                           ELSE h.bufs[b]],
              !.encs[id].openNamespaces = v.openNamespaces]

Store(h, id, v, rid) == StoreBytes(StoreReflectBuf(h, id, v, rid), id, v)

(***************************************************************************)
(* An encoder nothing refers to any more is collected, with the buffers    *)
(* only it referred to.                                                    *)
(***************************************************************************)
DropBuf(h, b) ==
    IF b = 0 \/ b \in h.bufPool THEN h ELSE [h EXCEPT !.bufs[b] = NoBuf]

DropEnc(h, id) ==
    [DropBuf(DropBuf(h, h.encs[id].buf), h.encs[id].reflectBuf)
        EXCEPT !.encs[id] = ZeroEnc]

SetHeap(h) ==
    /\ encs' = h.encs
    /\ bufs' = h.bufs
    /\ jsonPool' = h.jsonPool
    /\ bufPool' = h.bufPool

(***************************************************************************)
(* EncodeEntry calls.  pc: "idle" (no call), "fields" (head written),      *)
(* "tail" (fields added), "done" (returned ret), "panicked".  A call keeps *)
(* its inputs, the base encoder's bytes and depth when it started (encBuf, *)
(* encNs), the clone's bytes before and after the fields were added (pre,  *)
(* mid), the bytes of the buffer when the call ended (out), and the pooled  *)
(* encoders and buffers it took, the returned buffer apart, that were not  *)
(* back in their pools when it returned (held).                            *)
(***************************************************************************)
CallIds == 1 .. MaxCalls

NoneHeld == [encs |-> {}, bufs |-> {}]

\* of the encoders es and the buffers bs, those not in the pools of h
StillHeld(h, es, bs) == [encs |-> es \ h.jsonPool, bufs |-> bs \ h.bufPool]

\* the buffers the encoder id of h refers to
BufsIn(h, id) == {h.encs[id].buf, h.encs[id].reflectBuf} \ {0}

IdleCall ==
    [pc |-> "idle", final |-> 0, ret |-> 0, ent |-> E_min, fields |-> <<>>,
     encBuf |-> <<>>, encNs |-> 0, pre |-> <<>>, mid |-> <<>>, out |-> <<>>,
     held |-> NoneHeld]

NoCallInFlight == \A c \in CallIds : calls[c].pc = "idle"

newJSONEncoder_Compact(cfg, spaced, bid) ==
    [live |-> TRUE, cfg |-> cfg, buf |-> bid, spaced |-> FALSE,
     openNamespaces |-> 0, reflectBuf |-> 0]

\* newJSONEncoder(cfg, spaced): a new encoder object on buffer bid
newJSONEncoder(cfg, spaced, bid) ==
    [live |-> TRUE, cfg |-> cfg, buf |-> bid, spaced |-> spaced,
     openNamespaces |-> 0, reflectBuf |-> 0]

\* NewJSONEncoder(cfg) or NewConsoleEncoder(cfg) has returned the base
InitBase(kinds, cfgs, miss) ==
    /\ kind \in kinds
    /\ poolMayMiss = miss
    /\ \E cfg \in cfgs :
          encs = [i \in EncIds |->
                     IF i = 1 THEN newJSONEncoder(cfg, kind = "console", 1)
                     ELSE ZeroEnc]
    /\ bufs = [i \in BufIds |->
                  IF i = 1 THEN [live |-> TRUE, bytes |-> <<>>] ELSE NoBuf]
    /\ jsonPool = {}
    /\ bufPool = {}
    /\ base = 1
    /\ nctx = 0
    /\ calls = [c \in CallIds |-> IdleCall]
    /\ hist = <<>>

\* a field is added to the base encoder (the context a logger accumulates)
BaseAddToStore(r) ==
    /\ ~r.panic
    /\ \E rid \in ReflectChoices(Heap, base, r.enc) :
          SetHeap(Store(Heap, base, r.enc, rid))

BaseAddTo(f) ==
    /\ NoCallInFlight
    /\ nctx < MaxCtx
    /\ BaseAddToStore(AddTo(f, Load(Heap, base)))
    /\ nctx' = nctx + 1
    /\ UNCHANGED <<sinkVars, poolMayMiss, base, kind, calls, hist>>

\* the base encoder is replaced by its Clone()
CloneBase ==
    /\ NoCallInFlight
    /\ nctx < MaxCtx
    /\ \E id \in EncGetChoices(Heap), bid \in BufGetChoices(Heap) :
          /\ SetHeap(DropEnc(Clone(Heap, base, id, bid), base))
          /\ base' = id
    /\ nctx' = nctx + 1
    /\ UNCHANGED <<sinkVars, poolMayMiss, kind, calls, hist>>

\* jsonEncoder.EncodeEntry, from the clone to the accumulated context
EncodeStartStore(c, ent, fields, h, id, encBuf, v) ==
    /\ SetHeap(Store(h, id, v, 0))
    /\ calls' = [calls EXCEPT ![c] =
                    [pc |-> "fields", final |-> id, ret |-> 0, ent |-> ent,
                     fields |-> fields, encBuf |-> encBuf,
                     encNs |-> h.encs[base].openNamespaces,
                     pre |-> v.buf, mid |-> <<>>, out |-> <<>>,
                     held |-> NoneHeld]]

EncodeStartHead(c, ent, fields, h, id, encBuf) ==
    EncodeStartStore(c, ent, fields, h, id, encBuf,
                     EncodeEntryHead(Load(h, id), encBuf, ent))

EncodeStartClone(c, ent, fields, h, id) ==
    EncodeStartHead(c, ent, fields, h, id, h.bufs[h.encs[base].buf].bytes)

EncodeStart(c, ent, fields) ==
    /\ kind = "json"
    /\ calls[c].pc = "idle"
    /\ \E id \in EncGetChoices(Heap), bid \in BufGetChoices(Heap) :
          EncodeStartClone(c, ent, fields, clone(Heap, base, id, bid), id)
    /\ UNCHANGED <<sinkVars, poolMayMiss, base, kind, nctx, hist>>

\* jsonEncoder.EncodeEntry: addFields(final, fields)
EncodeFieldsStore(c, id, r, h) ==
    IF r.panic
    THEN /\ SetHeap(DropEnc(h, id))
         /\ calls' = [calls EXCEPT ![c].pc = "panicked", ![c].final = 0,
                                   ![c].out = r.enc.buf]
    ELSE /\ SetHeap(h)
         /\ calls' = [calls EXCEPT ![c].pc = "tail", ![c].mid = r.enc.buf]

EncodeFieldsAdded(c, id, r) ==
    \E rid \in ReflectChoices(Heap, id, r.enc) :
       EncodeFieldsStore(c, id, r, Store(Heap, id, r.enc, rid))

EncodeFields(c) ==
    /\ calls[c].pc = "fields"
    /\ EncodeFieldsAdded(c, calls[c].final,
                         addFields(Load(Heap, calls[c].final), calls[c].fields))
    /\ UNCHANGED <<sinkVars, poolMayMiss, base, kind, nctx, hist>>

\* jsonEncoder.EncodeEntry, from closeOpenNamespaces to the return:
\* "ret := final.buf; putJSONEncoder(final); return ret, nil"
EncodeFinishStore(c, id, v, h) ==
    /\ SetHeap(putJSONEncoder(h, id))
    /\ calls' = [calls EXCEPT ![c].pc = "done", ![c].final = 0,
                              ![c].ret = h.encs[id].buf, ![c].out = v.buf,
                              ![c].held =
                                  StillHeld(putJSONEncoder(h, id), {id},
                                            BufsIn(h, id) \ {h.encs[id].buf})]

EncodeFinishTail(c, id, v) == EncodeFinishStore(c, id, v, Store(Heap, id, v, 0))

EncodeFinish(c) ==
    /\ calls[c].pc = "tail"
    /\ EncodeFinishTail(c, calls[c].final,
                        EncodeEntryTail(Load(Heap, calls[c].final),
                                        calls[c].ent))
    /\ UNCHANGED <<sinkVars, poolMayMiss, base, kind, nctx, hist>>

\* consoleEncoder.EncodeEntry.  line is the buffer of the line; the context
\* clone id works on buffer bid, which writeContext frees on its way out
\* ("defer context.buf.Free()"); the clone itself is left to the collector,
\* and so is the line when the call panics.
ConsoleCall(c, ent, fields, line, out, pc, held) ==
    [pc |-> pc, final |-> 0, ret |-> IF pc = "done" THEN line ELSE 0,
     ent |-> ent, fields |-> fields,
     encBuf |-> bufs[encs[base].buf].bytes,
     encNs |-> encs[base].openNamespaces,
     pre |-> <<>>, mid |-> <<>>, out |-> out, held |-> held]

ConsoleEncodeEnd(c, ent, fields, line, r, h, held) ==
    IF r.panic
    THEN /\ SetHeap(DropBuf(h, line))
         /\ calls' = [calls EXCEPT ![c] =
                         ConsoleCall(c, ent, fields, line, r.line, "panicked",
                                     held)]
    ELSE /\ SetHeap([h EXCEPT !.bufs[line].bytes = r.line])
         /\ calls' = [calls EXCEPT ![c] =
                         ConsoleCall(c, ent, fields, line, r.line, "done", held)]

ConsoleEncodeFree(c, ent, fields, line, id, r, h) ==
    ConsoleEncodeEnd(c, ent, fields, line, r,
                     DropEnc(BufFree(h, h.encs[id].buf), id),
                     StillHeld(BufFree(h, h.encs[id].buf), {id},
                               BufsIn(h, id)))

ConsoleEncodeWritten(c, ent, fields, line, id, r, h) ==
    \E rid \in ReflectChoices(h, id, r.context) :
       ConsoleEncodeFree(c, ent, fields, line, id, r,
                         Store(h, id, r.context, rid))

ConsoleEncodeCloned(c, ent, fields, line, id, h) ==
    ConsoleEncodeWritten(c, ent, fields, line, id,
                         ConsoleEncodeEntry(Load(h, id), ent, fields), h)

ConsoleEncodeLine(c, ent, fields, line, h) ==
    \E id \in EncGetChoices(h), bid \in BufGetChoices(h) :
       ConsoleEncodeCloned(c, ent, fields, line, id, Clone(h, base, id, bid))

ConsoleEncode(c, ent, fields) ==
    /\ kind = "console"
    /\ calls[c].pc = "idle"
    /\ \E line \in BufGetChoices(Heap) :
          ConsoleEncodeLine(c, ent, fields, line, BufGet(Heap, line))
    /\ UNCHANGED <<sinkVars, poolMayMiss, base, kind, nctx, hist>>

\* the caller has written the returned buffer out and frees it
Release(c) ==
    /\ calls[c].pc = "done"
    /\ SetHeap(BufFree(Heap, calls[c].ret))
    /\ calls' = [calls EXCEPT ![c] = IdleCall]
    /\ UNCHANGED <<sinkVars, poolMayMiss, base, kind, nctx, hist>>

(***************************************************************************)
(* Direct calls on the base encoder.  Each is recorded in hist with the    *)
(* encoder's bytes and depth before and after, the error it returned and   *)
(* whether it panicked; r is the call's result [enc, err, panic].          *)
(***************************************************************************)
CallRecord(op, arg, v, r) ==
    [op |-> op, arg |-> arg, spaced |-> v.spaced,
     pre |-> v.buf, preNs |-> v.openNamespaces,
     post |-> r.enc.buf, postNs |-> r.enc.openNamespaces,
     err |-> r.err, panic |-> r.panic]

CallDone(op, arg, v, r) ==
    /\ \E rid \in ReflectChoices(Heap, base, r.enc) :
          SetHeap(Store(Heap, base, r.enc, rid))
    /\ hist' = Append(hist, CallRecord(op, arg, v, r))
    /\ UNCHANGED <<sinkVars, poolMayMiss, base, kind, nctx, calls>>

\* AddString, AddInt64, AppendString, ..., OpenNamespace
CallMethod(o) ==
    /\ Len(hist) < MaxOps
    /\ CallDone(o.op, o, Load(Heap, base),
                Returned(ApplyOp(Load(Heap, base), o)))

CallAppendArray(arr) ==
    /\ Len(hist) < MaxOps
    /\ CallDone("AppendArray", arr, Load(Heap, base),
                ReturnedErr(AppendArray(Load(Heap, base), arr)))

CallAppendObject(obj) ==
    /\ Len(hist) < MaxOps
    /\ CallDone("AppendObject", obj, Load(Heap, base),
                ReturnedErr(AppendObject(Load(Heap, base), obj)))

CallCloseOpenNamespaces ==
    /\ Len(hist) < MaxOps
    /\ CallDone("closeOpenNamespaces", <<>>, Load(Heap, base),
                Returned(closeOpenNamespaces(Load(Heap, base))))

\* AddReflected(key, obj) and AppendReflected(obj), called directly
CallAddReflected(key, obj) ==
    /\ Len(hist) < MaxOps
    /\ CallDone("AddReflected", [key |-> key, obj |-> obj], Load(Heap, base),
                ReturnedErr(AddReflected(Load(Heap, base), key, obj)))

CallAppendReflected(obj) ==
    /\ Len(hist) < MaxOps
    /\ CallDone("AppendReflected", [key |-> <<>>, obj |-> obj],
                Load(Heap, base),
                ReturnedErr(AppendReflected(Load(Heap, base), obj)))

\* Field.AddTo(enc); a panic is recovered by the caller
AddToResult(r) == [enc |-> r.enc, err |-> <<>>, panic |-> r.panic]

CallAddTo(f) ==
    /\ Len(hist) < MaxOps
    /\ CallDone("AddTo", f, Load(Heap, base),
                AddToResult(AddTo(f, Load(Heap, base))))

(***************************************************************************)
(* Write syncers.  A sink object is a raw sink (any WriteSyncer that is    *)
(* neither of the two below; what it returns from Write and Sync is an     *)
(* input of the call), a *lockedWriteSyncer (ws: the sink it wraps, mu:    *)
(* the goroutine holding its mutex, 0 when it is unlocked) or a            *)
(* multiWriteSyncer (arr: the backing array of the slice).  A nil error is *)
(* "", an aggregated error the sequence of the errors it was built from.   *)
(***************************************************************************)
SinkIds == 1 .. MaxSinks
ArrIds == 1 .. MaxArrs
ProcIds == 1 .. MaxProcs

NoSink == [kind |-> "none", ws |-> 0, arr |-> 0, mu |-> 0]

RawSink == [kind |-> "raw", ws |-> 0, arr |-> 0, mu |-> 0]

NoArray == [live |-> FALSE, elems |-> <<>>]

\* the caller's own slice, the one it passes as ws...
CallerArr == 1

IdleProc ==
    [pc |-> "idle", s |-> 0, op |-> "", n |-> 0, err |-> "", locks |-> 0,
     unlocks |-> 0]

SinkHeap == [sinks |-> sinks, arrays |-> arrays]

FreeSinks(h) == {i \in SinkIds : h.sinks[i].kind = "none"}

FreeArrs(h) == {a \in ArrIds : ~h.arrays[a].live}

NewSinkId(h) == IF FreeSinks(h) = {} THEN 0 ELSE MinOf(FreeSinks(h))

NewArrId(h) == IF FreeArrs(h) = {} THEN 0 ELSE MinOf(FreeArrs(h))

\* ws.(*lockedWriteSyncer)
IsLocked(h, ws) == h.sinks[ws].kind = "locked"

Lock_AlwaysWrap(h, ws, id) ==
    [h |-> [h EXCEPT !.sinks[id] =
                        [kind |-> "locked", ws |-> ws, arr |-> 0, mu |-> 0]],
     ret |-> id]

\* Lock(ws); id is the new object, if one is made
Lock(h, ws, id) ==
    IF IsLocked(h, ws)
    THEN [h |-> h, ret |-> ws]
    ELSE [h |-> [h EXCEPT !.sinks[id] =
                             [kind |-> "locked", ws |-> ws, arr |-> 0,
                              mu |-> 0]],
          ret |-> id]

\* multierr.Append(errs, err)
multierrAppend(errs, err) == IF err = "" THEN errs ELSE Append(errs, err)

\* the if / else if of the loop of multiWriteSyncer.Write
nWrittenNext(nWritten, n) ==
    IF nWritten = 0 /\ n # 0 THEN n
    ELSE IF n < nWritten THEN n
    ELSE nWritten

multiWriteStep_StopOnError(w, p, r, acc) ==
    IF acc.err # <<>> THEN acc
    ELSE [n |-> nWrittenNext(acc.n, r.n),
          err |-> multierrAppend(acc.err, r.err),
          calls |-> Append(acc.calls, [ws |-> w, op |-> "Write", p |-> p])]

\* one turn of the loop: w.Write(p) returned r.n, r.err
multiWriteStep(w, p, r, acc) ==
    [n |-> nWrittenNext(acc.n, r.n),
     err |-> multierrAppend(acc.err, r.err),
     calls |-> Append(acc.calls, [ws |-> w, op |-> "Write", p |-> p])]

RECURSIVE multiWriteFrom(_, _, _, _, _)
multiWriteFrom(ws, p, resp, i, acc) ==
    IF i > Len(ws) THEN acc
    ELSE multiWriteFrom(ws, p, resp, i + 1,
                        multiWriteStep(ws[i], p, resp[i], acc))

\* multiWriteSyncer.Write(p) over the members ws, which answer resp
multiWrite(ws, p, resp) ==
    multiWriteFrom(ws, p, resp, 1, [n |-> 0, err |-> <<>>, calls |-> <<>>])

multiSyncStep(w, r, acc) ==
    [n |-> 0,
     err |-> multierrAppend(acc.err, r.err),
     calls |-> Append(acc.calls, [ws |-> w, op |-> "Sync", p |-> <<>>])]

RECURSIVE multiSyncFrom(_, _, _, _)
multiSyncFrom(ws, resp, i, acc) ==
    IF i > Len(ws) THEN acc
    ELSE multiSyncFrom(ws, resp, i + 1, multiSyncStep(ws[i], resp[i], acc))

\* multiWriteSyncer.Sync() over the members ws, which answer resp
multiSync(ws, resp) ==
    multiSyncFrom(ws, resp, 1, [n |-> 0, err |-> <<>>, calls |-> <<>>])

NewMultiWriteSyncer_NoCopy(h, a, id, b) ==
    IF Len(h.arrays[a].elems) = 1
    THEN [h |-> h, ret |-> h.arrays[a].elems[1]]
    ELSE [h |-> [h EXCEPT !.sinks[id] =
                             [kind |-> "multi", ws |-> 0, arr |-> a,
                              mu |-> 0]],
          ret |-> id]

\* NewMultiWriteSyncer(ws...), ws being the slice on array a; id and b are
\* the new fan-out and the array of its copy, if they are made
NewMultiWriteSyncer(h, a, id, b) ==
    IF Len(h.arrays[a].elems) = 1
    THEN [h |-> h, ret |-> h.arrays[a].elems[1]]
    ELSE [h |-> [h EXCEPT !.sinks[id] =
                             [kind |-> "multi", ws |-> 0, arr |-> b,
                              mu |-> 0],
                          !.arrays[b] =
                             [live |-> TRUE, elems |-> h.arrays[a].elems]],
          ret |-> id]

\* the members the fan-out m ranges over
Members(h, m) == h.arrays[h.sinks[m].arr].elems

\* what the members may answer
Counts == {0, 3, 5, 7}
Errs == {"", "EIO"}
Payloads == {B_a, B_ns}
WriteResps == [n : Counts, err : Errs]
SyncResps == [n : {0}, err : Errs]
RespLists(R, k) == [1 .. k -> R]

InitSinks(raws) ==
    /\ sinks = [i \in SinkIds |-> IF i \in raws THEN RawSink ELSE NoSink]
    /\ arrays = [a \in ArrIds |->
                    IF a = CallerArr THEN [live |-> TRUE, elems |-> <<>>]
                    ELSE NoArray]
    /\ procs = [p \in ProcIds |-> IdleProc]
    /\ sinkHist = <<>>

SetSinkHeap(h) ==
    /\ sinks' = h.sinks
    /\ arrays' = h.arrays

\* Lock(ws) is called and returns
CallLockDone(ws, r) ==
    /\ SetSinkHeap(r.h)
    /\ sinkHist' = Append(sinkHist,
                          [op |-> "Lock", arg |-> ws, ret |-> r.ret,
                           wasLocked |-> IsLocked(SinkHeap, ws),
                           made |-> FreeSinks(SinkHeap) \ FreeSinks(r.h)])
    /\ UNCHANGED <<procs, encVars>>

CallLock(ws) ==
    /\ Len(sinkHist) < MaxLockOps
    /\ sinks[ws].kind # "none"
    /\ IsLocked(SinkHeap, ws) \/ FreeSinks(SinkHeap) # {}
    /\ CallLockDone(ws, Lock(SinkHeap, ws, NewSinkId(SinkHeap)))

\* a goroutine calls s.Write(bs) or s.Sync() on the locked sink s
LockedCall(p, s, op) ==
    /\ procs[p].pc = "idle"
    /\ IsLocked(SinkHeap, s)
    /\ procs' = [procs EXCEPT ![p] =
                    [pc |-> "lock", s |-> s, op |-> op, n |-> 0, err |-> "",
                     locks |-> 0, unlocks |-> 0]]
    /\ UNCHANGED <<sinks, arrays, sinkHist, encVars>>

LockedLock_NoMutex(p) ==
    /\ procs[p].pc = "lock"
    /\ sinks' = [sinks EXCEPT ![procs[p].s].mu = p]
    /\ procs' = [procs EXCEPT ![p].pc = "inner",
                              ![p].locks = procs[p].locks + 1]
    /\ UNCHANGED <<arrays, sinkHist, encVars>>

\* s.Lock() returns and the call of s.ws.Write(bs) or s.ws.Sync() begins
LockedLock(p) ==
    /\ procs[p].pc = "lock"
    /\ sinks[procs[p].s].mu = 0
    /\ sinks' = [sinks EXCEPT ![procs[p].s].mu = p]
    /\ procs' = [procs EXCEPT ![p].pc = "inner",
                              ![p].locks = procs[p].locks + 1]
    /\ UNCHANGED <<arrays, sinkHist, encVars>>

\* the call of the wrapped sink returns r
LockedInner(p, r) ==
    /\ procs[p].pc = "inner"
    /\ procs[p].op = "Sync" => r.n = 0
    /\ procs' = [procs EXCEPT ![p].pc = "unlock", ![p].n = r.n,
                              ![p].err = r.err]
    /\ UNCHANGED <<sinks, arrays, sinkHist, encVars>>

\* s.Unlock()
LockedUnlock(p) ==
    /\ procs[p].pc = "unlock"
    /\ sinks' = [sinks EXCEPT ![procs[p].s].mu = 0]
    /\ procs' = [procs EXCEPT ![p].pc = "ret",
                              ![p].unlocks = procs[p].unlocks + 1]
    /\ UNCHANGED <<arrays, sinkHist, encVars>>

\* return n, err
LockedReturn(p) ==
    /\ procs[p].pc = "ret"
    /\ procs' = [procs EXCEPT ![p] = IdleProc]
    /\ UNCHANGED <<sinks, arrays, sinkHist, encVars>>

\* the caller fills its slice with args and calls NewMultiWriteSyncer on it
CallNewMultiDone(args, r) ==
    /\ SetSinkHeap(r.h)
    /\ sinkHist' = Append(sinkHist,
                          [op |-> "NewMultiWriteSyncer", args |-> args,
                           ret |-> r.ret,
                           made |-> FreeSinks(SinkHeap) \ FreeSinks(r.h)])
    /\ UNCHANGED <<procs, encVars>>

CallNewMultiOn(args, h) ==
    CallNewMultiDone(args,
                     NewMultiWriteSyncer(h, CallerArr, NewSinkId(h),
                                         NewArrId(h)))

CallNewMulti(args) ==
    /\ Len(sinkHist) < MaxFanOps
    /\ FreeSinks(SinkHeap) # {}
    /\ FreeArrs(SinkHeap) # {}
    /\ CallNewMultiOn(args,
                      [SinkHeap EXCEPT !.arrays[CallerArr].elems = args])

\* the caller stores another sink into its slice: ws[i] = w
MutateSlice(i, w) ==
    /\ i \in DOMAIN arrays[CallerArr].elems
    /\ sinks[w].kind = "raw"
    /\ arrays[CallerArr].elems[i] # w
    /\ arrays' = [arrays EXCEPT ![CallerArr].elems[i] = w]
    /\ UNCHANGED <<sinks, procs, sinkHist, encVars>>

\* a Write or a Sync on the fan-out m has returned r
CallMultiDone(op, m, p, resp, r) ==
    /\ sinkHist' = Append(sinkHist,
                          [op |-> op, ws |-> m, p |-> p, resp |-> resp,
                           calls |-> r.calls, n |-> r.n, err |-> r.err])
    /\ UNCHANGED <<sinks, arrays, procs, encVars>>

CallMultiWrite(m, p) ==
    /\ Len(sinkHist) < MaxFanOps
    /\ sinks[m].kind = "multi"
    /\ \E resp \in RespLists(WriteResps, Len(Members(SinkHeap, m))) :
          CallMultiDone("Write", m, p, resp,
                        multiWrite(Members(SinkHeap, m), p, resp))

CallMultiSync(m) ==
    /\ Len(sinkHist) < MaxFanOps
    /\ sinks[m].kind = "multi"
    /\ \E resp \in RespLists(SyncResps, Len(Members(SinkHeap, m))) :
          CallMultiDone("Sync", m, <<>>, resp,
                        multiSync(Members(SinkHeap, m), resp))

(***************************************************************************)
(* Spec: one caller encoding entries, one after the other, on a JSON or a  *)
(* console encoder with any configuration and accumulated context.         *)
(***************************************************************************)
Init == InitBase({"json", "console"}, CfgIds, FALSE) /\ InitSinks({})

Next ==
    \/ \E f \in CtxFields : BaseAddTo(f)
    \/ \E ent \in Entries, fields \in EntryFieldLists :
          EncodeStart(1, ent, fields)
    \/ EncodeFields(1)
    \/ EncodeFinish(1)
    \/ \E ent \in Entries, fields \in EntryFieldLists :
          ConsoleEncode(1, ent, fields)
    \/ Release(1)

Spec == Init /\ [][Next]_vars

(***************************************************************************)
(* SpecConc: concurrent callers of EncodeEntry on one shared JSON encoder, *)
(* which is cloned and extended only while no call is in flight.           *)
(***************************************************************************)
InitConc == InitBase({"json"}, {2}, TRUE) /\ InitSinks({})

NextConc ==
    \/ \E f \in CtxFields : BaseAddTo(f)
    \/ CloneBase
    \/ \E c \in CallIds, fields \in ConcFieldLists :
          EncodeStart(c, E_full, fields)
    \/ \E c \in CallIds : EncodeFields(c)
    \/ \E c \in CallIds : EncodeFinish(c)
    \/ \E c \in CallIds : Release(c)

SpecConc == InitConc /\ [][NextConc]_vars

(***************************************************************************)
(* SpecOps: one goroutine calling the methods of one encoder, compact or   *)
(* spaced, directly.                                                       *)
(***************************************************************************)
InitOps == InitBase({"json", "console"}, {1}, FALSE) /\ InitSinks({})

NextOps ==
    \/ \E o \in MethodOps : CallMethod(o)
    \/ \E arr \in OpArrays : CallAppendArray(arr)
    \/ \E obj \in OpObjects : CallAppendObject(obj)
    \/ CallCloseOpenNamespaces
    \/ \E f \in OpFields : CallAddTo(f)
    \/ \E obj \in OpReflected : CallAddReflected(B_e, obj)
    \/ \E obj \in OpReflected : CallAppendReflected(obj)

SpecOps == InitOps /\ [][NextOps]_vars

(***************************************************************************)
(* SpecLock: goroutines calling Write and Sync on the sinks Lock returns,  *)
(* while Lock is called on raw and on locked sinks.                        *)
(***************************************************************************)
InitEncIdle == InitBase({"json"}, {1}, FALSE)

InitLock == InitEncIdle /\ InitSinks({1})

NextLock ==
    \/ \E ws \in SinkIds : CallLock(ws)
    \/ \E p \in ProcIds, s \in SinkIds, op \in {"Write", "Sync"} :
          LockedCall(p, s, op)
    \/ \E p \in ProcIds : LockedLock(p)
    \/ \E p \in ProcIds, r \in WriteResps : LockedInner(p, r)
    \/ \E p \in ProcIds : LockedUnlock(p)
    \/ \E p \in ProcIds : LockedReturn(p)

SpecLock == InitLock /\ [][NextLock]_vars

(***************************************************************************)
(* SpecFan: one goroutine building fan-outs over its slice of raw sinks,   *)
(* storing into the slice afterwards, and calling Write and Sync on the    *)
(* fan-outs.                                                               *)
(***************************************************************************)
FanSinks == {1, 2}

InitFan == InitEncIdle /\ InitSinks(FanSinks)

NextFan ==
    \/ \E args \in SeqsUpTo(FanSinks, MaxMembers) : CallNewMulti(args)
    \/ \E i \in 1 .. MaxMembers, w \in SinkIds : MutateSlice(i, w)
    \/ \E m \in SinkIds, p \in Payloads : CallMultiWrite(m, p)
    \/ \E m \in SinkIds : CallMultiSync(m)

SpecFan == InitFan /\ [][NextFan]_vars

(***************************************************************************)
(* SpecEscape: AppendString and AppendByteString called on a new JSON      *)
(* encoder with every byte sequence over EscBytes of length at most        *)
(* MaxEscLen: control bytes, the quote and the backslash, plain ASCII      *)
(* including DEL, and lead and continuation bytes from which valid,        *)
(* truncated and invalid UTF-8 sequences are made.                         *)
(***************************************************************************)
EscBytes ==
    {0, Tab, Newline, CarriageReturn, 31, Space, Quote, Backslash, 97, 127,
     128, 195, 169, 226, 130, 172, 239, 191, 189, 255}

EscInputs == SeqsUpTo(EscBytes, MaxEscLen)

CallAppendString(s) ==
    /\ Len(hist) < MaxEscOps
    /\ CallDone("AppendString", MkOp("AppendString", <<>>, s, 0),
                Load(Heap, base), Returned(AppendString(Load(Heap, base), s)))

CallAppendByteString(s) ==
    /\ Len(hist) < MaxEscOps
    /\ CallDone("AppendByteString", MkOp("AppendByteString", <<>>, s, 0),
                Load(Heap, base),
                Returned(AppendByteString(Load(Heap, base), s)))

InitEscape == InitEncIdle /\ InitSinks({})

NextEscape ==
    \/ \E s \in EscInputs : CallAppendString(s)
    \/ \E s \in EscInputs : CallAppendByteString(s)

SpecEscape == InitEscape /\ [][NextEscape]_vars

(***************************************************************************)
(* The text the claims speak of, written down independently of the         *)
(* encoder: quoted strings, "key":value items, and their joins.  sp is     *)
(* the spaced mode.                                                        *)
(***************************************************************************)
Last(s) == s[Len(s)]

IsPrefix(p, s) == Len(p) <= Len(s) /\ SubSeq(s, 1, Len(p)) = p

Count(s, b) == Cardinality({i \in DOMAIN s : s[i] = b})

Contains(s, t) ==
    \E i \in 0 .. (Len(s) - Len(t)) : SubSeq(s, i + 1, i + Len(t)) = t

RefQuoted(s) == <<Quote>> \o s \o <<Quote>>

RefColon(sp) == IF sp THEN <<Colon, Space>> ELSE <<Colon>>

RefComma(sp) == IF sp THEN <<Comma, Space>> ELSE <<Comma>>

RefKey(k, sp) == RefQuoted(k) \o RefColon(sp)

RefBool(b) == IF b THEN B_true ELSE B_false

RECURSIVE RefJoin(_, _)
RefJoin(items, sp) ==
    IF items = <<>> THEN <<>>
    ELSE IF Len(items) = 1 THEN items[1]
    ELSE items[1] \o RefComma(sp) \o RefJoin(Tail(items), sp)

RefOp(o, sp) ==
    CASE o.op = "AddString" -> RefKey(o.key, sp) \o RefQuoted(o.val)
      [] o.op = "AddInt64" -> RefKey(o.key, sp) \o FormatInt(o.int)
      [] o.op = "AddBool" -> RefKey(o.key, sp) \o RefBool(o.int = 1)
      [] o.op = "AppendString" -> RefQuoted(o.val)
      [] o.op = "AppendInt64" -> FormatInt(o.int)
      [] o.op = "AppendBool" -> RefBool(o.int = 1)
      [] o.op = "OpenNamespace" -> RefKey(o.key, sp) \o <<LBrace>>

RefOps(ops, sp) == RefJoin([i \in DOMAIN ops |-> RefOp(ops[i], sp)], sp)

\* the "<key>Error" field that follows a marshaler that failed
RefErrorField(f, sp) ==
    IF f.Interface.err = <<>> THEN <<>>
    ELSE RefComma(sp) \o RefKey(f.Key \o B_Error, sp)
             \o RefQuoted(f.Interface.err)

RefField(f, sp) ==
    CASE f.Type = "StringType" -> RefKey(f.Key, sp) \o RefQuoted(f.String)
      [] f.Type = "Int64Type" -> RefKey(f.Key, sp) \o FormatInt(f.Integer)
      [] f.Type = "BoolType" -> RefKey(f.Key, sp) \o RefBool(f.Integer = 1)
      [] f.Type = "DurationType" -> RefKey(f.Key, sp) \o FormatInt(f.Integer)
      [] f.Type = "SkipType" -> <<>>
      [] f.Type = "NamespaceType" -> RefKey(f.Key, sp) \o <<LBrace>>
      [] f.Type = "ObjectMarshalerType" ->
            RefKey(f.Key, sp) \o <<LBrace>> \o RefOps(f.Interface.ops, sp)
                \o <<RBrace>> \o RefErrorField(f, sp)
      [] f.Type = "ArrayMarshalerType" ->
            RefKey(f.Key, sp) \o <<LBracket>> \o RefOps(f.Interface.ops, sp)
                \o <<RBracket>> \o RefErrorField(f, sp)

RefFields(fields, sp) ==
    RefJoin([i \in DOMAIN fields |-> RefField(fields[i], sp)], sp)

\* fields appended to a text: a comma before each, except at the start of
\* the text and right after the brace that opens a namespace; a skipped
\* field adds nothing
RECURSIVE RefAppend(_, _, _)
RefAppend(buf, fields, sp) ==
    IF fields = <<>> THEN buf
    ELSE IF Head(fields).Type = "SkipType" THEN RefAppend(buf, Tail(fields), sp)
    ELSE RefAppend(buf \o (IF buf = <<>> \/ Last(buf) = LBrace THEN <<>>
                           ELSE RefComma(sp))
                       \o RefField(Head(fields), sp),
                   Tail(fields), sp)

Plain(fields) ==
    \A i \in DOMAIN fields :
       fields[i].Type \in {"StringType", "Int64Type", "BoolType"}

HasUnknown(fields) == \E i \in DOMAIN fields : fields[i].Type \notin FieldTypes

CountType(fields, t) ==
    Cardinality({i \in DOMAIN fields : fields[i].Type = t})

\* the bytes of the buffer a finished call returned
Output(c) == bufs[calls[c].ret].bytes

DoneBy(c, k) == kind = k /\ calls[c].pc = "done"

\* no metadata keys, no accumulated context, depth 0
Bare(c) ==
    /\ encs[base].cfg = 1
    /\ calls[c].encBuf = <<>>
    /\ calls[c].encNs = 0

\* {"a":"x","b":10,"c":true}\n
CompactABC ==
    <<123, 34, 97, 34, 58, 34, 120, 34, 44, 34, 98, 34, 58, 49, 48, 44,
      34, 99, 34, 58, 116, 114, 117, 101, 125, 10>>

\* {"a": "x", "b": 10, "c": true}\n
SpacedABC ==
    <<123, 34, 97, 34, 58, 32, 34, 120, 34, 44, 32, 34, 98, 34, 58, 32,
      49, 48, 44, 32, 34, 99, 34, 58, 32, 116, 114, 117, 101, 125, 10>>

(***************************************************************************)
(* C1.  With no metadata keys configured, an empty base context and depth  *)
(* 0, the compact JSON encoder's EncodeEntry on a list of String, Int64    *)
(* and Bool fields returns exactly '{', the fields as "key":value in input *)
(* order joined by single commas without spaces, '}' and the line          *)
(* terminator; [String(a,x), Int64(b,10), Bool(c,true)] gives              *)
(* {"a":"x","b":10,"c":true}\n.                                            *)
(***************************************************************************)
C1_CompactOutput ==
    \A c \in CallIds :
       DoneBy(c, "json") /\ Bare(c) /\ Plain(calls[c].fields) =>
          /\ Output(c) = <<LBrace>> \o RefFields(calls[c].fields, FALSE)
                             \o <<RBrace, Newline>>
          /\ Count(Output(c), Space) = 0
          /\ calls[c].fields = <<F_a, F_b, F_c>> => Output(c) = CompactABC

C1_Witness ==
    /\ DoneBy(1, "json")
    /\ Bare(1)
    /\ calls[1].fields = <<F_a, F_b, F_c>>

(***************************************************************************)
(* C2, as the code has it.  The console encoder's EncodeEntry on a list of *)
(* String, Int64 and Bool fields, with no metadata keys configured and an  *)
(* empty base context, returns only the context block, without a leading   *)
(* tab: '{', the fields as "key": value joined by a comma and a space,     *)
(* '}' and the line terminator (the line terminator alone when there are   *)
(* no fields); [String(a,x), Int64(b,10), Bool(c,true)] gives              *)
(* {"a": "x", "b": 10, "c": true}\n, the compact text with one space       *)
(* after each colon and each comma.                                        *)
(***************************************************************************)
C2_ConsoleSpacedOutput ==
    \A c \in CallIds :
       DoneBy(c, "console") /\ Bare(c) /\ Plain(calls[c].fields) =>
          /\ calls[c].fields # <<>> =>
                Output(c) = <<LBrace>> \o RefFields(calls[c].fields, TRUE)
                                \o <<RBrace, Newline>>
          /\ calls[c].fields = <<>> => Output(c) = <<Newline>>
          /\ Count(Output(c), Tab) = 0
          /\ calls[c].fields = <<F_a, F_b, F_c>> => Output(c) = SpacedABC

C2_Witness ==
    /\ DoneBy(1, "console")
    /\ Bare(1)
    /\ calls[1].ent = E_min
    /\ calls[1].fields = <<F_a, F_b, F_c>>

\* C2 as the spec has it: the console text of [String(a,x), Int64(b,10),
\* Bool(c,true)] is {"a":"x","b":10,"c":true}\n, byte for byte the compact
\* encoder's text.
C2_ConsoleSameAsCompact ==
    \A c \in CallIds :
       /\ DoneBy(c, "console")
       /\ Bare(c)
       /\ calls[c].ent = E_min
       /\ calls[c].fields = <<F_a, F_b, F_c>>
       => Output(c) = CompactABC

(***************************************************************************)
(* C3.  When N namespaces have been opened in total, by OpenNamespace on   *)
(* the base encoder and by Namespace fields passed to EncodeEntry, the     *)
(* JSON EncodeEntry output has exactly N closing braces from namespace     *)
(* closing, directly after the last field, then only the rest of the       *)
(* record (the stack trace if any, the closing brace of the record, the    *)
(* line ending); the output is brace-balanced.                             *)
(***************************************************************************)
OpenedBy(c) == calls[c].encNs + CountType(calls[c].fields, "NamespaceType")

\* what follows the fields and the n namespace closers
AfterClosers(c, n) ==
    SubSeq(Output(c), Len(calls[c].mid) + n + 1, Len(Output(c)))

C3_NamespaceBalance ==
    \A c \in CallIds :
       DoneBy(c, "json") =>
          /\ IsPrefix(calls[c].mid \o Closers(OpenedBy(c)), Output(c))
          /\ Count(calls[c].mid, LBrace) - Count(calls[c].mid, RBrace)
                = OpenedBy(c) + 1
          /\ Count(AfterClosers(c, OpenedBy(c)), RBrace) = 1
          /\ Count(AfterClosers(c, OpenedBy(c)), LBrace) = 0
          /\ Count(Output(c), LBrace) = Count(Output(c), RBrace)

\* the base has opened "ns" and the call opens it again before its last field
C3_Witness ==
    /\ DoneBy(1, "json")
    /\ calls[1].encNs = 1
    /\ calls[1].fields = <<F_b, F_ns, F_a>>
    /\ OpenedBy(1) = 2

(***************************************************************************)
(* C4, as the spec has it.  closeOpenNamespaces on an encoder whose depth  *)
(* counter is N writes exactly N '}' bytes and resets the counter to zero, *)
(* so that a second consecutive call writes nothing.                       *)
(***************************************************************************)
IsClose(i) == i \in DOMAIN hist /\ hist[i].op = "closeOpenNamespaces"

C4_ClosesAndResets ==
    \A i \in DOMAIN hist :
       IsClose(i) =>
          /\ hist[i].post = hist[i].pre \o Closers(hist[i].preNs)
          /\ hist[i].postNs = 0
          /\ IsClose(i - 1) => hist[i].post = hist[i].pre

\* a second consecutive call on an encoder that had a namespace open
C4_Witness ==
    /\ Len(hist) = 3
    /\ hist[1].op = "OpenNamespace"
    /\ IsClose(2)
    /\ IsClose(3)
    /\ hist[3].post # hist[3].pre

(***************************************************************************)
(* C5.  Before every keyed add or positional append the encoder looks at   *)
(* the last byte of its buffer: with the buffer empty or the last byte one *)
(* of '{', '[', ':', ',' and space it writes no separator; after any other *)
(* byte it writes exactly one ',', followed by exactly one space iff the   *)
(* encoder is spaced.  So no text has two adjacent separators, or a        *)
(* separator directly after an opening bracket or a colon.                 *)
(***************************************************************************)
NoSeparatorAfter == {LBrace, LBracket, Colon, Comma, Space}

RuleSeparator(buf, sp) ==
    IF buf = <<>> \/ Last(buf) \in NoSeparatorAfter THEN <<>>
    ELSE IF sp THEN <<Comma, Space>> ELSE <<Comma>>

\* the calls that add or append a value
AddsValue(i) ==
    /\ ~hist[i].panic
    /\ hist[i].op # "closeOpenNamespaces"
    /\ hist[i].post # hist[i].pre

\* the separator of the rule, and then no further separator byte
OneSeparator(pre, post, sp) ==
    /\ IsPrefix(pre \o RuleSeparator(pre, sp), post)
    /\ Len(post) > Len(pre) + Len(RuleSeparator(pre, sp))
    /\ post[Len(pre) + Len(RuleSeparator(pre, sp)) + 1] \notin {Comma, Space}

\* every comma follows a value, and every space a comma or a colon
WellSeparated(buf, sp) ==
    \A i \in DOMAIN buf :
       /\ buf[i] = Comma => i > 1 /\ buf[i - 1] \notin NoSeparatorAfter
       /\ buf[i] = Space => i > 1 /\ buf[i - 1] \in {Comma, Colon}
       /\ buf[i] \in {Comma, Colon} /\ i < Len(buf) =>
             (sp <=> buf[i + 1] = Space)

BaseView == Load(Heap, base)

C5_SeparatorRule ==
    /\ \A n \in 0 .. Len(BaseView.buf) :
          addElementSeparator([BaseView EXCEPT !.buf = SubSeq(@, 1, n)]).buf
             = SubSeq(BaseView.buf, 1, n)
                  \o RuleSeparator(SubSeq(BaseView.buf, 1, n), BaseView.spaced)
    /\ \A i \in DOMAIN hist :
          AddsValue(i) => OneSeparator(hist[i].pre, hist[i].post, hist[i].spaced)
    /\ WellSeparated(BaseView.buf, BaseView.spaced)

\* a spaced encoder adds right after an opening brace, then after a value,
\* then an array of two elements
C5_Witness ==
    /\ kind = "console"
    /\ Len(hist) = 3
    /\ hist[1].op = "OpenNamespace"
    /\ hist[2].op = "AddString"
    /\ Last(hist[2].pre) = LBrace
    /\ hist[3].op = "AppendArray"
    /\ hist[3].arg = ArrOk
    /\ RuleSeparator(hist[3].pre, TRUE) = <<Comma, Space>>

(***************************************************************************)
(* C6.  When the callback of an array- or object-marshaler field returns   *)
(* an error, the encoder receives one more string field, "<key>Error" with *)
(* the error's message, right after the field; the fields after the        *)
(* failing one are still encoded; and EncodeEntry still returns a buffer:  *)
(* only a field of unknown type makes the call end otherwise.              *)
(***************************************************************************)
Fails(f) ==
    /\ f.Type \in {"ArrayMarshalerType", "ObjectMarshalerType"}
    /\ f.Interface.err # <<>>

C6_MarshalerErrorField ==
    \A c \in CallIds :
       /\ calls[c].pc = "panicked" => HasUnknown(calls[c].fields)
       /\ calls[c].pc = "done" =>
             /\ calls[c].ret \in BufIds
             /\ bufs[calls[c].ret].live
             /\ ~HasUnknown(calls[c].fields)
       /\ kind = "json" /\ calls[c].pc \in {"tail", "done"} =>
             calls[c].mid = RefAppend(calls[c].pre, calls[c].fields, FALSE)
       /\ DoneBy(c, "json") => IsPrefix(calls[c].mid, Output(c))
       /\ DoneBy(c, "console") =>
             Contains(Output(c),
                      RefAppend(calls[c].encBuf, calls[c].fields, TRUE))

\* a failing object, a failing array, and a field after them
C6_Witness ==
    /\ DoneBy(1, "json")
    /\ calls[1].fields = <<F_objErr, F_arrErr, F_a>>
    /\ Fails(calls[1].fields[1])
    /\ Fails(calls[1].fields[2])
    /\ Contains(Output(1), RefKey(B_o \o B_Error, FALSE) \o RefQuoted(B_boom))

(***************************************************************************)
(* C7.  AppendArray and AppendObject write the opening bracket or brace    *)
(* before the marshaling callback runs and the matching closing one after  *)
(* it, whether the callback succeeds or fails, and return the callback's   *)
(* error unchanged: what they write is the separator, the opening byte,    *)
(* the callback's elements and the closing byte, so one opening and one    *)
(* closing byte of their own either way.                                   *)
(***************************************************************************)
Written(i) == SubSeq(hist[i].post, Len(hist[i].pre) + 1, Len(hist[i].post))

\* the namespaces a callback opens
Opens(ops) == Cardinality({k \in DOMAIN ops : ops[k].op = "OpenNamespace"})

Bracketed(i, open, close) ==
    /\ ~hist[i].panic
    /\ hist[i].err = hist[i].arg.err
    /\ Written(i) = RuleSeparator(hist[i].pre, hist[i].spaced) \o <<open>>
                       \o RefOps(hist[i].arg.ops, hist[i].spaced) \o <<close>>
    /\ Count(Written(i), open)
          = Count(RefOps(hist[i].arg.ops, hist[i].spaced), open) + 1
    /\ Count(Written(i), close)
          = Count(RefOps(hist[i].arg.ops, hist[i].spaced), close) + 1
    /\ hist[i].postNs = hist[i].preNs + Opens(hist[i].arg.ops)

C7_BracketsOnBothPaths ==
    \A i \in DOMAIN hist :
       /\ hist[i].op = "AppendArray" => Bracketed(i, LBracket, RBracket)
       /\ hist[i].op = "AppendObject" => Bracketed(i, LBrace, RBrace)

\* a failing array and a failing object, one after the other
C7_Witness ==
    \E i, j \in DOMAIN hist :
       /\ hist[i].op = "AppendArray"
       /\ hist[i].err = B_boom
       /\ hist[j].op = "AppendObject"
       /\ hist[j].err = B_boom
       /\ Last(hist[i].post) = RBracket
       /\ Last(hist[j].post) = RBrace

(***************************************************************************)
(* C8, as the code has it.  Field.AddTo on a field whose Type is           *)
(* UnknownType, or any tag outside the enumeration, panics and calls no    *)
(* method of the encoder, so it adds no byte to the record.  AddTo also    *)
(* panics, before any encoder call, on a field whose Interface does not    *)
(* hold what its Type requires (a marshaler field whose Interface is nil). *)
(* AddTo itself panics in no other case: on every other field it returns   *)
(* once the encoder method it calls has returned.                          *)
(***************************************************************************)
\* the dynamic type the tag's type assertion asks for
Required(t) ==
    CASE t = "ArrayMarshalerType" -> {"ArrayMarshaler"}
      [] t = "ObjectMarshalerType" -> {"ObjectMarshaler"}
      [] t = "ByteStringType" -> {"[]byte"}
      [] t = "TimeType" -> {"nil", "*time.Location"}
      [] t = "StringerType" -> {"fmt.Stringer"}
      [] t = "ErrorType" -> {"error"}
      [] OTHER -> {}

Mistyped(f) == Required(f.Type) # {} /\ f.Interface.dyn \notin Required(f.Type)

IsAddTo(i) == hist[i].op = "AddTo"

Untouched(i) ==
    /\ hist[i].post = hist[i].pre
    /\ hist[i].postNs = hist[i].preNs

C8_PanicsBeforeAnyCall ==
    \A i \in DOMAIN hist :
       IsAddTo(i) =>
          /\ hist[i].arg.Type \notin FieldTypes => hist[i].panic
          /\ hist[i].panic <=>
                hist[i].arg.Type \notin FieldTypes \/ Mistyped(hist[i].arg)
          /\ hist[i].panic => Untouched(i)

\* the unknown type, a tag outside the enumeration and a nil marshaler
C8_Witness ==
    /\ Len(hist) = 3
    /\ hist[1].op = "AddTo" /\ hist[1].arg = F_unknown /\ hist[1].panic
    /\ hist[2].op = "AddTo" /\ hist[2].arg = F_outOfRange /\ hist[2].panic
    /\ hist[3].op = "AddTo" /\ hist[3].arg = F_objNil /\ hist[3].panic

\* C8 as the spec has it: the unknown type (or a tag outside the
\* enumeration) panics with the encoder untouched, and it is the only field
\* type for which AddTo does not return normally.
C8_OnlyUnknownPanics ==
    \A i \in DOMAIN hist :
       IsAddTo(i) =>
          /\ hist[i].panic <=> hist[i].arg.Type \notin FieldTypes
          /\ hist[i].panic => Untouched(i)

(***************************************************************************)
(* C9.  With concurrent EncodeEntry calls on one shared JSON encoder, each *)
(* call writes only into a buffer that no other call in flight, no pooled  *)
(* encoder and not the base encoder refers to; the base encoder's bytes    *)
(* and depth are the same after each call as before it; and the buffer a   *)
(* call returns stays unaliased after the working clone is back in the     *)
(* pool.                                                                   *)
(***************************************************************************)
InFlight(c) == calls[c].pc \in {"fields", "tail"}

\* the buffers the encoder id refers to
BufsOf(id) == {encs[id].buf, encs[id].reflectBuf} \ {0}

\* buffer b is held by the call c alone
HeldOnlyBy(b, c) ==
    /\ b \in BufIds
    /\ bufs[b].live
    /\ b \notin bufPool
    /\ \A id \in EncIds \ {calls[c].final} : b \notin BufsOf(id)
    /\ \A d \in CallIds \ {c} : calls[d].ret # b

C9_ClonesUnaliased ==
    \A c \in CallIds :
       /\ InFlight(c) =>
             /\ calls[c].final \in EncIds \ ({base} \cup jsonPool)
             /\ HeldOnlyBy(encs[calls[c].final].buf, c)
             /\ encs[calls[c].final].reflectBuf # encs[calls[c].final].buf
             /\ \A d \in CallIds \ {c} : calls[d].final # calls[c].final
       /\ calls[c].pc # "idle" =>
             /\ bufs[encs[base].buf].bytes = calls[c].encBuf
             /\ encs[base].openNamespaces = calls[c].encNs
       /\ calls[c].pc = "done" =>
             /\ HeldOnlyBy(calls[c].ret, c)
             /\ Output(c) = calls[c].out

\* one call has returned, its clone is pooled, the other call is in flight
C9_Witness ==
    /\ calls[1].pc = "done"
    /\ jsonPool # {}
    /\ calls[2].pc = "tail"
    /\ calls[2].fields = <<F_a>>

(***************************************************************************)
(* C10.  After any sequence of clone, EncodeEntry and release operations,  *)
(* every encoder resting in the JSON encoder pool has a nil configuration, *)
(* a nil buffer, spacing false, depth 0 and no reflection scratch buffer;  *)
(* an encoder taken from the pool carries nothing of a previous caller:    *)
(* the clone has the base's configuration, spacing and depth and a buffer  *)
(* of its own.                                                             *)
(***************************************************************************)
C10_PooledEncodersReset ==
    /\ \A id \in jsonPool :
          /\ encs[id].live
          /\ encs[id].cfg = 0
          /\ encs[id].buf = 0
          /\ ~encs[id].spaced
          /\ encs[id].openNamespaces = 0
          /\ encs[id].reflectBuf = 0
    /\ \A c \in CallIds :
          InFlight(c) =>
             /\ encs[calls[c].final].cfg = encs[base].cfg
             /\ encs[calls[c].final].spaced = encs[base].spaced
             /\ encs[calls[c].final].buf # 0
             /\ calls[c].pc = "fields" =>
                   /\ encs[calls[c].final].openNamespaces = calls[c].encNs
                   /\ encs[calls[c].final].reflectBuf = 0

\* both clones are pooled: one had opened a namespace, the other had a
\* reflection scratch buffer
C10_Witness ==
    /\ calls[1].pc = "done"
    /\ calls[1].fields = <<F_ns>>
    /\ calls[2].pc = "done"
    /\ calls[2].fields = <<F_refl>>
    /\ Cardinality(jsonPool) = 2

(***************************************************************************)
(* C11.  For a sink wrapped by Lock and any number of concurrent callers   *)
(* of its Write and Sync, at most one call into the wrapped sink is in     *)
(* progress through the wrapper at any time; each Write and each Sync      *)
(* acquires the mutex once and releases it before it returns, so the mutex *)
(* is held only by a goroutine that is between its Lock and its Unlock.    *)
(***************************************************************************)
InnerVia(s) == {p \in ProcIds : procs[p].pc = "inner" /\ procs[p].s = s}

Holding(p) == procs[p].pc \in {"inner", "unlock"}

C11_LockSerialises ==
    /\ \A s \in SinkIds : Cardinality(InnerVia(s)) <= 1
    /\ \A s \in SinkIds :
          sinks[s].mu # 0 =>
             Holding(sinks[s].mu) /\ procs[sinks[s].mu].s = s
    /\ \A p \in ProcIds :
          /\ Holding(p) =>
                /\ sinks[procs[p].s].mu = p
                /\ procs[p].locks = 1
                /\ procs[p].unlocks = 0
          /\ procs[p].pc = "ret" =>
                /\ sinks[procs[p].s].mu # p
                /\ procs[p].locks = 1
                /\ procs[p].unlocks = 1
          /\ procs[p].pc \in {"idle", "lock"} => procs[p].locks = 0

\* a Write inside the wrapped sink while a Sync on the same wrapper waits
C11_Witness ==
    /\ procs[1].pc = "inner" /\ procs[1].op = "Write"
    /\ procs[2].pc = "lock" /\ procs[2].op = "Sync"
    /\ procs[1].s = procs[2].s

(***************************************************************************)
(* C12.  Lock is idempotent: Lock applied to a sink that Lock returned     *)
(* gives back the very same object and makes no new one, so that           *)
(* Lock(Lock(ws)) is the object Lock(ws) returned, for every sink ws.      *)
(***************************************************************************)
LockAgain(r) == Lock(r.h, r.ret, NewSinkId(r.h)) = r

ReturnedByLock(i, ws) ==
    \E j \in 1 .. i - 1 : sinkHist[j].op = "Lock" /\ sinkHist[j].ret = ws

C12_LockIdempotent ==
    /\ \A ws \in SinkIds :
          /\ sinks[ws].kind # "none"
          /\ IsLocked(SinkHeap, ws) \/ FreeSinks(SinkHeap) # {}
          => LockAgain(Lock(SinkHeap, ws, NewSinkId(SinkHeap)))
    /\ \A i \in DOMAIN sinkHist :
          sinkHist[i].op = "Lock" /\ ReturnedByLock(i, sinkHist[i].arg) =>
             /\ sinkHist[i].ret = sinkHist[i].arg
             /\ sinkHist[i].made = {}

\* Lock(ws) made a wrapper, and Lock was then called on that wrapper
C12_Witness ==
    /\ Len(sinkHist) >= 2
    /\ sinkHist[1].op = "Lock" /\ ~sinkHist[1].wasLocked
    /\ sinkHist[1].made = {sinkHist[1].ret}
    /\ sinkHist[2].op = "Lock" /\ sinkHist[2].arg = sinkHist[1].ret

(***************************************************************************)
(* C13.  A fan-out Write calls Write exactly once on every member, in      *)
(* order, with the same payload, also after earlier members returned       *)
(* errors; the error it returns is nil iff every member returned nil, and  *)
(* otherwise aggregates every member's non-nil error.  A fan-out Sync      *)
(* likewise calls Sync on every member and aggregates all the errors.      *)
(***************************************************************************)
IsFanCall(i) == sinkHist[i].op \in {"Write", "Sync"}

\* the sinks the fan-out m was built over
BuiltOver(m) ==
    sinkHist[CHOOSE j \in DOMAIN sinkHist :
                sinkHist[j].op = "NewMultiWriteSyncer" /\ sinkHist[j].ret = m
            ].args

RECURSIVE NonNil(_)
NonNil(resp) ==
    IF resp = <<>> THEN <<>>
    ELSE IF Head(resp).err = "" THEN NonNil(Tail(resp))
    ELSE <<Head(resp).err>> \o NonNil(Tail(resp))

CallsOn(ms, op, p) == [k \in DOMAIN ms |-> [ws |-> ms[k], op |-> op, p |-> p]]

C13_FanOutReachesAll ==
    \A i \in DOMAIN sinkHist :
       IsFanCall(i) =>
          /\ sinkHist[i].calls =
                CallsOn(BuiltOver(sinkHist[i].ws), sinkHist[i].op,
                        sinkHist[i].p)
          /\ sinkHist[i].err = NonNil(sinkHist[i].resp)
          /\ sinkHist[i].err = <<>> <=>
                \A k \in DOMAIN sinkHist[i].resp : sinkHist[i].resp[k].err = ""

\* a Write over three members of which the first and the last failed
C13_Witness ==
    /\ Len(sinkHist) = 2
    /\ sinkHist[2].op = "Write"
    /\ Len(sinkHist[2].resp) = 3
    /\ sinkHist[2].resp[1].err # ""
    /\ sinkHist[2].resp[2].err = ""
    /\ sinkHist[2].resp[3].err # ""
    /\ Len(sinkHist[2].calls) = 3

(***************************************************************************)
(* C14, as the spec has it.  The byte count a fan-out Write returns is the *)
(* minimum of the counts reported by the members from the first member     *)
(* that reports a non-zero count onward, and 0 if none reports a non-zero  *)
(* count; counts [5,3,7] return 3.                                         *)
(***************************************************************************)
CountsOf(resp) == [k \in DOMAIN resp |-> resp[k].n]

NonZeroAt(ns) == {k \in DOMAIN ns : ns[k] # 0}

MinFrom(ns, k) == MinOf({ns[j] : j \in k .. Len(ns)})

MinAfterFirstNonZero(ns) ==
    IF NonZeroAt(ns) = {} THEN 0 ELSE MinFrom(ns, MinOf(NonZeroAt(ns)))

C14_MinAfterFirstNonZero ==
    \A i \in DOMAIN sinkHist :
       sinkHist[i].op = "Write" =>
          sinkHist[i].n = MinAfterFirstNonZero(CountsOf(sinkHist[i].resp))

\* the members reported 5, 0 and 7 and the fan-out returned 7
C14_Witness ==
    /\ Len(sinkHist) = 2
    /\ sinkHist[2].op = "Write"
    /\ CountsOf(sinkHist[2].resp) = <<5, 0, 7>>
    /\ sinkHist[2].n = 7

(***************************************************************************)
(* C15, as the doc comment has it.  When the members of a fan-out do not   *)
(* all write the same number of bytes, Write returns the smallest number   *)
(* reported by any member, for every list of counts, those with a 0 in     *)
(* them included.                                                          *)
(***************************************************************************)
C15_SmallestOfAll ==
    \A i \in DOMAIN sinkHist :
       sinkHist[i].op = "Write" /\ sinkHist[i].resp # <<>> =>
          sinkHist[i].n = MinFrom(CountsOf(sinkHist[i].resp), 1)

\* the members reported 0 and 5 and the fan-out returned 5
C15_Witness ==
    /\ Len(sinkHist) = 2
    /\ sinkHist[2].op = "Write"
    /\ CountsOf(sinkHist[2].resp) = <<0, 5>>
    /\ sinkHist[2].n = 5

(***************************************************************************)
(* C16.  NewMultiWriteSyncer called with exactly one sink returns that     *)
(* same sink object, unwrapped; with any other number of sinks it returns  *)
(* a fan-out over a private copy of the list, so that what the caller      *)
(* stores into its slice afterwards does not change which members are      *)
(* written.                                                                *)
(***************************************************************************)
IsNew(i) == sinkHist[i].op = "NewMultiWriteSyncer"

C16_SingleUnwrappedElseCopy ==
    /\ \A i \in DOMAIN sinkHist :
          IsNew(i) =>
             IF Len(sinkHist[i].args) = 1
             THEN /\ sinkHist[i].ret = sinkHist[i].args[1]
                  /\ sinkHist[i].made = {}
             ELSE /\ sinkHist[i].made = {sinkHist[i].ret}
                  /\ sinks[sinkHist[i].ret].kind = "multi"
                  /\ sinks[sinkHist[i].ret].arr # CallerArr
                  /\ Members(SinkHeap, sinkHist[i].ret) = sinkHist[i].args
    /\ \A i \in DOMAIN sinkHist :
          IsFanCall(i) =>
             \A k \in DOMAIN sinkHist[i].calls :
                sinkHist[i].calls[k].ws = BuiltOver(sinkHist[i].ws)[k]

\* the single sink came back as it is; a fan-out was then built over two
\* sinks and keeps them after the caller changed its slice
C16_Witness ==
    /\ Len(sinkHist) = 2
    /\ IsNew(1) /\ sinkHist[1].args = <<2>> /\ sinkHist[1].ret = 2
    /\ IsNew(2) /\ sinkHist[2].args = <<1, 2>>
    /\ arrays[CallerArr].elems = <<2, 2>>
    /\ Members(SinkHeap, sinkHist[2].ret) = <<1, 2>>

(***************************************************************************)
(* The text of a record, written down section by section: a pair is        *)
(* "key":value, with a comma before it unless the text so far is empty or  *)
(* ends in an opening brace.                                               *)
(***************************************************************************)
RefPair(buf, key, value) ==
    buf \o RuleSeparator(buf, FALSE) \o RefKey(key, FALSE) \o value

RefLevel(cfg, ent, buf) ==
    IF cfg.LevelKey = <<>> THEN buf
    ELSE RefPair(buf, cfg.LevelKey, RefQuoted(ent.Level))

RefTime(cfg, ent, buf) ==
    IF cfg.TimeKey = <<>> THEN buf
    ELSE RefPair(buf, cfg.TimeKey, FormatInt(ent.Time.nanos))

RefName(cfg, ent, buf) ==
    IF cfg.NameKey = <<>> \/ ent.LoggerName = <<>> THEN buf
    ELSE RefPair(buf, cfg.NameKey, RefQuoted(ent.LoggerName))

RefCaller(cfg, ent, buf) ==
    IF cfg.CallerKey = <<>> \/ ~ent.Caller.Defined THEN buf
    ELSE RefPair(buf, cfg.CallerKey, RefQuoted(ent.Caller.String))

RefMessage(cfg, ent, buf) ==
    IF cfg.MessageKey = <<>> THEN buf
    ELSE RefPair(buf, cfg.MessageKey, RefQuoted(ent.Message))

RefMetadata(cfg, ent) ==
    RefCaller(cfg, ent,
              RefName(cfg, ent,
                      RefTime(cfg, ent, RefLevel(cfg, ent, <<LBrace>>))))

RefContext(encBuf, buf) ==
    IF encBuf = <<>> THEN buf ELSE buf \o RuleSeparator(buf, FALSE) \o encBuf

RefHead(cfg, ent, encBuf) ==
    RefContext(encBuf, RefMessage(cfg, ent, RefMetadata(cfg, ent)))

RefClosers(n) == [i \in 1 .. n |-> RBrace]

RefStack(cfg, ent, buf) ==
    IF cfg.StacktraceKey = <<>> \/ ent.Stack = <<>> THEN buf
    ELSE RefPair(buf, cfg.StacktraceKey, RefQuoted(ent.Stack))

RefTerminator(cfg) ==
    IF cfg.LineEnding = <<>> THEN <<Newline>> ELSE cfg.LineEnding

RefRecord(cfg, ent, encBuf, fields, opened) ==
    RefStack(cfg, ent,
             RefAppend(RefHead(cfg, ent, encBuf), fields, FALSE)
                 \o RefClosers(opened))
        \o <<RBrace>> \o RefTerminator(cfg)

BaseCfg == Configs[encs[base].cfg]

PastHead(c) == kind = "json" /\ calls[c].pc \in {"fields", "tail", "done"}

PastFields(c) == kind = "json" /\ calls[c].pc \in {"tail", "done"}

HasType(fields, t) == \E i \in DOMAIN fields : fields[i].Type = t

(***************************************************************************)
(* C17.  In the JSON EncodeEntry every metadata key that is written        *)
(* (level, time, logger name, caller) and every time or duration value is  *)
(* followed by exactly one value: the formatter's when the formatter       *)
(* appended something, the default (the string form of the level, name and *)
(* caller, the integer nanoseconds of the time and duration) when it       *)
(* appended nothing; no key is left without a value and none gets two.     *)
(***************************************************************************)
C17_OneValuePerKey ==
    \A c \in CallIds :
       /\ PastHead(c) =>
             calls[c].pre = RefHead(BaseCfg, calls[c].ent, calls[c].encBuf)
       /\ PastFields(c) /\ HasType(calls[c].fields, "DurationType") =>
             calls[c].mid = RefAppend(calls[c].pre, calls[c].fields, FALSE)

\* formatters that append nothing: all four keys and a duration field
C17_Witness ==
    /\ DoneBy(1, "json")
    /\ BaseCfg.EncodeLevel = "noop"
    /\ BaseCfg.EncodeDuration = "noop"
    /\ calls[1].ent = E_full
    /\ calls[1].fields = <<F_dur>>
    /\ Contains(Output(1), RefKey(BaseCfg.LevelKey, FALSE) \o RefQuoted(B_info))
    /\ Contains(Output(1), RefKey(B_d, FALSE) \o FormatInt(5))

(***************************************************************************)
(* C18.  The JSON EncodeEntry output is exactly the enabled sections in    *)
(* this order: '{', level, time, logger name, caller, message, the         *)
(* accumulated context bytes, the supplied fields, the namespace closers,  *)
(* the stack, '}', and the line terminator (the configured one, "\n" when  *)
(* it is empty), which is last and written once.  A section whose key is   *)
(* the empty string is absent, key and value; so is the logger name when   *)
(* the entry has none and the caller when it is not defined.               *)
(***************************************************************************)
EndsWith(s, t) ==
    Len(t) <= Len(s) /\ SubSeq(s, Len(s) - Len(t) + 1, Len(s)) = t

C18_SectionsInOrder ==
    \A c \in CallIds :
       DoneBy(c, "json") =>
          /\ Output(c) = RefRecord(BaseCfg, calls[c].ent, calls[c].encBuf,
                                   calls[c].fields, OpenedBy(c))
          /\ EndsWith(Output(c), <<RBrace>> \o RefTerminator(BaseCfg))
          /\ Count(Output(c), Newline) = 1
          /\ BaseCfg.LevelKey = <<>> =>
                ~Contains(Output(c), RefQuoted(calls[c].ent.Level))
          /\ calls[c].ent.LoggerName = <<>> /\ BaseCfg.NameKey # <<>> =>
                ~Contains(Output(c), RefKey(BaseCfg.NameKey, FALSE))
          /\ ~calls[c].ent.Caller.Defined /\ BaseCfg.CallerKey # <<>> =>
                ~Contains(Output(c), RefKey(BaseCfg.CallerKey, FALSE))

\* every section present: all keys, a context, fields with a namespace, a
\* stack and a configured terminator
C18_Witness ==
    /\ DoneBy(1, "json")
    /\ BaseCfg.LineEnding = <<CarriageReturn, Newline>>
    /\ calls[1].ent = E_full
    /\ calls[1].encBuf # <<>>
    /\ calls[1].fields = <<F_ns, F_a>>
    /\ Contains(Output(1), RefKey(BaseCfg.StacktraceKey, FALSE))

(***************************************************************************)
(* C19, as the code has it.  Fields are encoded in the order given and are *)
(* not deduplicated: of two fields that share a key both key/value pairs   *)
(* appear in the output, in input order.  Each String, Int64, Bool or      *)
(* Duration field, and each array or object field whose callback           *)
(* succeeds, contributes exactly one key/value pair; an array or object    *)
(* field whose callback returns an error contributes two, its own and then *)
(* "<key>Error".  A SkipType field contributes no bytes and leaves the     *)
(* buffer and the namespace depth unchanged.                               *)
(***************************************************************************)
Working(c) == Load(Heap, calls[c].final)

C19_FieldsInOrder ==
    \A c \in CallIds :
       /\ PastFields(c) =>
             calls[c].mid = RefAppend(calls[c].pre, calls[c].fields, FALSE)
       /\ kind = "json" /\ calls[c].pc \in {"fields", "tail"} =>
             /\ AddTo(F_skip, Working(c)).enc = Working(c)
             /\ ~AddTo(F_skip, Working(c)).panic

\* two fields with the key "a" around a skipped field
C19_Witness ==
    /\ DoneBy(1, "json")
    /\ Bare(1)
    /\ calls[1].fields = <<F_a, F_skip, F_aInt>>
    /\ Output(1) = <<LBrace>> \o RefKey(B_a, FALSE) \o RefQuoted(B_x)
                      \o <<Comma>> \o RefKey(B_a, FALSE) \o FormatInt(20)
                      \o <<RBrace, Newline>>

\* C19 as the spec has it: every non-skip field contributes exactly one
\* key/value pair, a marshaler field whose callback fails included.
RefOwnPair(f) == [f EXCEPT !.Interface.err = <<>>]

OwnPairs(fields) == [i \in DOMAIN fields |-> RefOwnPair(fields[i])]

C19_OnePairPerField ==
    \A c \in CallIds :
       PastFields(c) =>
          calls[c].mid = RefAppend(calls[c].pre, OwnPairs(calls[c].fields), FALSE)

(***************************************************************************)
(* C20.  Encoding the same entry and field list twice with encoders of     *)
(* the same configuration and the same accumulated context returns         *)
(* byte-identical buffers, whichever encoder and buffer objects the pools  *)
(* hand out and whatever earlier encodings (other depths, reflected        *)
(* values) left in them: the output is what EncodeEntry writes with a new  *)
(* encoder object and an empty buffer.                                     *)
(***************************************************************************)
\* a working clone that owes nothing to the pools
NewClone(c) ==
    [cfg |-> encs[base].cfg, buf |-> <<>>, spaced |-> kind = "console",
     openNamespaces |-> calls[c].encNs, hasReflectBuf |-> FALSE,
     reflectBuf |-> <<>>]

OutputOf(r, ent) == EncodeEntryTail(r.enc, ent).buf

OutputWith(v, c) ==
    OutputOf(addFields(EncodeEntryHead(v, calls[c].encBuf, calls[c].ent),
                       calls[c].fields),
             calls[c].ent)

SameInputs(c, d) ==
    /\ calls[c].ent = calls[d].ent
    /\ calls[c].fields = calls[d].fields
    /\ calls[c].encBuf = calls[d].encBuf
    /\ calls[c].encNs = calls[d].encNs

C20_SameInputsSameBytes ==
    /\ \A c \in CallIds :
          DoneBy(c, "json") => Output(c) = OutputWith(NewClone(c), c)
    /\ \A c, d \in CallIds :
          DoneBy(c, "json") /\ DoneBy(d, "json") /\ SameInputs(c, d) =>
             Output(c) = Output(d)

\* two finished calls with a reflected field on a base that has a namespace
\* open, the second on the encoder object the first put back
C20_Witness ==
    /\ DoneBy(1, "json")
    /\ DoneBy(2, "json")
    /\ SameInputs(1, 2)
    /\ calls[1].fields = <<F_refl>>
    /\ calls[1].encNs = 1
    /\ Cardinality(jsonPool) = 1
    /\ calls[1].ret # calls[2].ret

(***************************************************************************)
(* C21, as the code has it.  In the JSON EncodeEntry, when the entry has a *)
(* non-empty stack and a stack key is configured, the encoder, after       *)
(* closing the open namespaces, adds the stack as a string field under the *)
(* stack key (separator, quoted key, colon, quoted and escaped stack       *)
(* text), then the record's closing brace and then the line terminator;    *)
(* when there is no stack or no stack key the closing brace follows the    *)
(* namespace closers directly.  No newline is written before the line      *)
(* terminator.                                                             *)
(***************************************************************************)
HasStack(c) ==
    calls[c].ent.Stack # <<>> /\ BaseCfg.StacktraceKey # <<>>

Closed(c) == calls[c].mid \o RefClosers(OpenedBy(c))

C21_StackIsKeyedString ==
    \A c \in CallIds :
       DoneBy(c, "json") =>
          /\ HasStack(c) =>
                Output(c) = RefPair(Closed(c), BaseCfg.StacktraceKey,
                                    RefQuoted(calls[c].ent.Stack))
                               \o <<RBrace>> \o RefTerminator(BaseCfg)
          /\ ~HasStack(c) =>
                Output(c) = Closed(c) \o <<RBrace>> \o RefTerminator(BaseCfg)
          /\ ~Contains(SubSeq(Output(c), 1,
                              Len(Output(c)) - Len(RefTerminator(BaseCfg))),
                       <<Newline>>)

\* a stack written after the closer of a namespace the fields opened
C21_Witness ==
    /\ DoneBy(1, "json")
    /\ HasStack(1)
    /\ calls[1].fields = <<F_ns, F_a>>
    /\ EndsWith(Output(1),
                <<RBrace, Comma>> \o RefKey(BaseCfg.StacktraceKey, FALSE)
                    \o RefQuoted(B_t) \o <<RBrace, Newline>>)

\* C21 as the spec has it: a newline and then the stack text, unquoted and
\* without a key.
C21_NewlineThenStack ==
    \A c \in CallIds :
       DoneBy(c, "json") /\ HasStack(c) =>
          Contains(Output(c), <<Newline>> \o calls[c].ent.Stack)

(***************************************************************************)
(* C22, as the spec has it.  The depth counter of a JSON encoder equals    *)
(* the number of namespace braces written to its buffer and not yet        *)
(* closed: on the base encoder after every call made on it,                *)
(* closeOpenNamespaces included, and on the encoder that truncate leaves.  *)
(***************************************************************************)
Unmatched(buf) == Count(buf, LBrace) - Count(buf, RBrace)

DepthMatches(v) == v.openNamespaces = Unmatched(v.buf)

C22_DepthMatchesBuffer ==
    /\ DepthMatches(BaseView)
    /\ DepthMatches(truncate(BaseView))
    /\ \A i \in DOMAIN hist :
          ~hist[i].panic => hist[i].postNs = Unmatched(hist[i].post)

\* a namespace opened and closed: the buffer is balanced, the counter is not
C22_Witness ==
    /\ Len(hist) = 2
    /\ hist[1].op = "OpenNamespace"
    /\ IsClose(2)
    /\ Unmatched(BaseView.buf) = 0
    /\ BaseView.openNamespaces = 1
    /\ ~DepthMatches(BaseView)

(***************************************************************************)
(* C23.  When the reflection encoder fails, AddReflected and               *)
(* AppendReflected return its error and leave the encoder's buffer and     *)
(* depth as they were: no separator, no key and no part of a value is      *)
(* written.  Field.AddTo on such a field adds the "<key>Error" string      *)
(* field, with the separator due before it, and nothing else.              *)
(***************************************************************************)
IsReflected(i) == hist[i].op \in {"AddReflected", "AppendReflected"}

C23_FailedReflectionWritesNothing ==
    \A i \in DOMAIN hist :
       /\ IsReflected(i) /\ hist[i].arg.obj.err # <<>> =>
             /\ hist[i].err = hist[i].arg.obj.err
             /\ Untouched(i)
       /\ IsReflected(i) /\ hist[i].arg.obj.err = <<>> =>
             /\ hist[i].err = <<>>
             /\ EndsWith(hist[i].post, hist[i].arg.obj.json)
       /\ IsAddTo(i) /\ hist[i].arg = F_reflErr =>
             /\ ~hist[i].panic
             /\ hist[i].post
                   = hist[i].pre
                        \o RuleSeparator(hist[i].pre, hist[i].spaced)
                        \o RefKey(F_reflErr.Key \o B_Error, hist[i].spaced)
                        \o RefQuoted(F_reflErr.Interface.err)
             /\ hist[i].postNs = hist[i].preNs

\* after a string field, where a separator is due: AppendReflected fails
\* and writes nothing, and AddTo, whose AddReflected fails, writes only the
\* error field
C23_Witness ==
    /\ Len(hist) = 3
    /\ hist[1].op = "AddString"
    /\ hist[2].op = "AppendReflected"
    /\ hist[2].err = B_boom
    /\ hist[2].post = hist[1].post
    /\ IsAddTo(3) /\ hist[3].arg = F_reflErr
    /\ Count(hist[3].post, Comma) = 1

(***************************************************************************)
(* C24, as the spec has it.  Field.AddTo on a TimeType field hands AddTime *)
(* the instant Integer nanoseconds after the epoch, in the location the    *)
(* field's Interface holds when it holds one and in UTC when it is nil;    *)
(* the encoder then writes the key and the time.                           *)
(***************************************************************************)
IsAddTime(i) ==
    IsAddTo(i) /\ hist[i].arg.Type = "TimeType" /\ ~hist[i].panic

\* the time.Time value the TimeType arm builds for AddTime
TimePassed(i) == TimeOf(hist[i].arg)

RefLocation(f) ==
    IF f.Interface.dyn = "nil" THEN "UTC" ELSE f.Interface.loc

C24_NilLocationIsUTC ==
    \A i \in DOMAIN hist :
       IsAddTime(i) =>
          /\ TimePassed(i).nanos = hist[i].arg.Integer
          /\ TimePassed(i).loc = RefLocation(hist[i].arg)
          /\ hist[i].post
                = AddTime([BaseView EXCEPT !.buf = hist[i].pre,
                                           !.openNamespaces = hist[i].preNs],
                          hist[i].arg.Key,
                          [nanos |-> hist[i].arg.Integer,
                           loc |-> RefLocation(hist[i].arg)]).buf

\* a time field without a location has been added: the value handed over
\* is in the process's local zone
C24_Witness ==
    /\ Len(hist) = 2
    /\ IsAddTime(1) /\ hist[1].arg = F_timeLoc
    /\ IsAddTime(2) /\ hist[2].arg = F_timeNil
    /\ TimePassed(1).loc = "EST"
    /\ TimePassed(2).loc = "Local"
    /\ hist[2].post # hist[2].pre

(***************************************************************************)
(* C25.  A console line is: the metadata cells in the order time, level,   *)
(* logger name, caller, with exactly one tab between consecutive cells;    *)
(* then, when a message key is configured, the message, after one tab iff  *)
(* the line is not empty at that point; then the context block, present    *)
(* iff the accumulated context, the extra fields and the namespace closers *)
(* make at least one byte, after one tab iff the line is not empty, and    *)
(* made of those bytes inside one pair of braces; then a newline and the   *)
(* stack text iff the entry has a stack and a stack key is configured;     *)
(* then the line terminator.                                               *)
(***************************************************************************)
RefCell(present, text) == IF present THEN <<text>> ELSE <<>>

RefCells(cfg, ent) ==
    RefCell(cfg.TimeKey # <<>> /\ cfg.EncodeTime # "noop",
            FormatInt(ent.Time.nanos))
    \o RefCell(cfg.LevelKey # <<>> /\ cfg.EncodeLevel # "noop", ent.Level)
    \o RefCell(cfg.NameKey # <<>> /\ ent.LoggerName # <<>>
                   /\ cfg.EncodeName # "noop",
               ent.LoggerName)
    \o RefCell(cfg.CallerKey # <<>> /\ ent.Caller.Defined
                   /\ cfg.EncodeCaller # "noop",
               ent.Caller.String)

RECURSIVE RefTabbed(_)
RefTabbed(cells) ==
    IF cells = <<>> THEN <<>>
    ELSE IF Len(cells) = 1 THEN cells[1]
    ELSE cells[1] \o <<Tab>> \o RefTabbed(Tail(cells))

RefTab(line) == IF line = <<>> THEN <<>> ELSE <<Tab>>

RefConsoleMessage(cfg, ent, line) ==
    IF cfg.MessageKey = <<>> THEN line ELSE line \o RefTab(line) \o ent.Message

RefBlock(bytes, line) ==
    IF bytes = <<>> THEN line
    ELSE line \o RefTab(line) \o <<LBrace>> \o bytes \o <<RBrace>>

RefConsoleStack(cfg, ent, line) ==
    IF ent.Stack # <<>> /\ cfg.StacktraceKey # <<>>
    THEN line \o <<Newline>> \o ent.Stack ELSE line

\* the accumulated context, the extra fields and the closers
RefContextBytes(c) ==
    RefAppend(calls[c].encBuf, calls[c].fields, TRUE)
        \o RefClosers(OpenedBy(c))

RefLine(cfg, ent, bytes) ==
    RefConsoleStack(cfg, ent,
        RefBlock(bytes,
                 RefConsoleMessage(cfg, ent, RefTabbed(RefCells(cfg, ent)))))
        \o RefTerminator(cfg)

C25_ConsoleLayout ==
    \A c \in CallIds :
       DoneBy(c, "console") =>
          Output(c) = RefLine(BaseCfg, calls[c].ent, RefContextBytes(c))

\* four cells, a message, a context block that closes two namespaces, a
\* stack: three tabs between the cells, one before the message, one before
\* the block
C25_Witness ==
    /\ DoneBy(1, "console")
    /\ Len(RefCells(BaseCfg, calls[1].ent)) = 4
    /\ BaseCfg.MessageKey # <<>>
    /\ calls[1].encNs = 1
    /\ calls[1].fields = <<F_ns, F_a>>
    /\ Count(Output(1), Tab) = 5
    /\ Contains(Output(1), <<RBrace, RBrace, RBrace, Newline>> \o B_t)

(***************************************************************************)
(* C26.  The escaper, on every byte sequence: a byte from 0x20 to 0x7F     *)
(* other than the backslash and the double quote is copied; the backslash, *)
(* the double quote, newline, carriage return and tab become their         *)
(* two-character escapes; any other byte below 0x20 becomes \u00XX with    *)
(* two lowercase hex digits; a byte of 0x80 or more that does not start a  *)
(* valid UTF-8 sequence becomes \ufffd and the scan moves on by one byte; *)
(* a valid multi-byte sequence is copied as it is.  So the text between    *)
(* the quotes holds no raw control byte and no quote or backslash outside  *)
(* an escape, and AppendByteString writes exactly what AppendString writes *)
(* for the same bytes.                                                     *)
(***************************************************************************)
RefHexDigit(n) == IF n < 10 THEN 48 + n ELSE 97 + (n - 10)

RefEscapeAscii(b) ==
    CASE b = Backslash -> <<Backslash, Backslash>>
      [] b = Quote -> <<Backslash, Quote>>
      [] b = Newline -> <<Backslash, 110>>
      [] b = CarriageReturn -> <<Backslash, 114>>
      [] b = Tab -> <<Backslash, 116>>
      [] b < 32 /\ b \notin {Newline, CarriageReturn, Tab} ->
            <<Backslash, 117, 48, 48, RefHexDigit(b \div 16),
              RefHexDigit(b % 16)>>
      [] OTHER -> <<b>>

\* well-formed UTF-8 (the Unicode standard's table of byte sequences)
RefWidth(b) ==
    IF 194 <= b /\ b <= 223 THEN 2
    ELSE IF 224 <= b /\ b <= 239 THEN 3
    ELSE IF 240 <= b /\ b <= 244 THEN 4
    ELSE 0

RefSecond(b) ==
    CASE b = 224 -> 160 .. 191
      [] b = 237 -> 128 .. 159
      [] b = 240 -> 144 .. 191
      [] b = 244 -> 128 .. 143
      [] OTHER -> 128 .. 191

RefWellFormed(s, i, w) ==
    /\ w > 0
    /\ i + w - 1 <= Len(s)
    /\ s[i + 1] \in RefSecond(s[i])
    /\ \A j \in (i + 2) .. (i + w - 1) : s[j] \in 128 .. 191

RECURSIVE RefEscape(_, _)
RefEscape(s, i) ==
    IF i > Len(s) THEN <<>>
    ELSE IF s[i] < 128 THEN RefEscapeAscii(s[i]) \o RefEscape(s, i + 1)
    ELSE IF RefWellFormed(s, i, RefWidth(s[i]))
    THEN SubSeq(s, i, i + RefWidth(s[i]) - 1)
             \o RefEscape(s, i + RefWidth(s[i]))
    ELSE <<Backslash, 117, 102, 102, 102, 100>> \o RefEscape(s, i + 1)

RefIsHex(b) == (48 <= b /\ b <= 57) \/ (97 <= b /\ b <= 102)

\* no control byte, and every quote and backslash inside an escape
RECURSIVE WellEscaped(_, _)
WellEscaped(t, i) ==
    IF i > Len(t) THEN TRUE
    ELSE IF t[i] < 32 \/ t[i] = Quote THEN FALSE
    ELSE IF t[i] # Backslash THEN WellEscaped(t, i + 1)
    ELSE IF i + 1 > Len(t) THEN FALSE
    ELSE IF t[i + 1] \in {Backslash, Quote, 110, 114, 116}
    THEN WellEscaped(t, i + 2)
    ELSE /\ t[i + 1] = 117
         /\ i + 5 <= Len(t)
         /\ \A j \in (i + 2) .. (i + 5) : RefIsHex(t[j])
         /\ WellEscaped(t, i + 6)

IsEscape(i) == hist[i].op \in {"AppendString", "AppendByteString"}

\* the text between the quotes of the value the call wrote
Inner(i) ==
    SubSeq(hist[i].post,
           Len(hist[i].pre) + Len(RuleSeparator(hist[i].pre, hist[i].spaced))
               + 2,
           Len(hist[i].post) - 1)

Before(i) ==
    [BaseView EXCEPT !.buf = hist[i].pre, !.openNamespaces = hist[i].preNs]

C26_Escaper ==
    \A i \in DOMAIN hist :
       IsEscape(i) =>
          /\ hist[i].post
                = hist[i].pre \o RuleSeparator(hist[i].pre, hist[i].spaced)
                     \o RefQuoted(RefEscape(hist[i].arg.val, 1))
          /\ WellEscaped(Inner(i), 1)
          /\ AppendByteString(Before(i), hist[i].arg.val).buf
                = AppendString(Before(i), hist[i].arg.val).buf

\* a lead byte without its continuation, a control byte and a quote:
\* "\ufffd\u001f\""
C26_Witness ==
    /\ Len(hist) = 1
    /\ hist[1].op = "AppendByteString"
    /\ hist[1].arg.val = <<195, 31, Quote>>
    /\ hist[1].post
          = <<Quote>> \o B_ufffd \o B_u00 \o <<49, 102>>
               \o <<Backslash, Quote>> \o <<Quote>>

(***************************************************************************)
(* C27, as the spec has it.  Whatever the object marshaler's callback      *)
(* does, OpenNamespace included, the brace depth of the buffer and the     *)
(* depth counter after AddObject / AppendObject are what they were before  *)
(* the call, so that a field added next is a sibling of the object and     *)
(* not inside it.                                                          *)
(***************************************************************************)
IsObject(i) ==
    /\ ~hist[i].panic
    /\ \/ hist[i].op = "AppendObject"
       \/ IsAddTo(i) /\ hist[i].arg.Type = "ObjectMarshalerType"

C27_ObjectKeepsDepth ==
    \A i \in DOMAIN hist :
       IsObject(i) =>
          /\ Unmatched(hist[i].post) = Unmatched(hist[i].pre)
          /\ hist[i].postNs = hist[i].preNs

\* "o":{"ns":{},"a":"x" : the object's brace closed the callback's
\* namespace, and "a" is inside "o"
C27_Witness ==
    /\ Len(hist) = 2
    /\ IsAddTo(1) /\ hist[1].arg = F_objNs
    /\ hist[2].op = "AddString"
    /\ hist[2].post
          = RefKey(B_o, FALSE) \o <<LBrace>> \o RefKey(B_ns, FALSE)
               \o <<LBrace, RBrace, Comma>> \o RefKey(B_a, FALSE)
               \o RefQuoted(B_x)
    /\ Unmatched(hist[2].post) = 1
    /\ BaseView.openNamespaces = 1

(***************************************************************************)
(* C28, as the spec has it.  When EncodeEntry of the JSON or the console   *)
(* encoder has returned, every pooled encoder and buffer it took, the      *)
(* returned buffer apart, is back in its pool: the encoder clone has been  *)
(* reset and put into the JSON encoder pool, and the context buffer and    *)
(* the reflection buffer have been freed.                                  *)
(***************************************************************************)
C28_AllReleased ==
    \A c \in CallIds :
       calls[c].pc = "done" =>
          /\ calls[c].held.encs = {}
          /\ calls[c].held.bufs = {}

\* a console call has returned: its context buffer is back in the buffer
\* pool, the clone it worked on is in no pool
C28_Witness ==
    /\ DoneBy(1, "console")
    /\ calls[1].fields = <<F_a>>
    /\ Cardinality(calls[1].held.encs) = 1
    /\ calls[1].held.bufs = {}
    /\ jsonPool = {}
    /\ bufPool # {}

====
